---- MODULE Spec2Model ----
(***************************************************************************)
(* KD-tree construction (geometry.NewKDTree), the radius search            *)
(* (geometry.RadiusEdges) and the nearest search (geometry.NearestEdges)   *)
(* of gomlx/gnn.                                                           *)
(*                                                                         *)
(* Coordinates are integers: every float32/float64 operation the code      *)
(* performs on small integers is exact, so the integer inputs are inputs   *)
(* of the program.  Go slices are sequences; At and Slice give the 0-based *)
(* indexing of the source.  A recursive Go function is run one call per    *)
(* step with an explicit stack of pending calls.                           *)
(***************************************************************************)
EXTENDS Integers, Sequences, FiniteSets, TLC

\* ------------------------------------------------------------------ bounds
\* Coordinates of the exhaustively enumerated points are 0..MaxCoord.
MaxCoord == 2
\* NewKDTree is called on flat buffers of up to MaxBuffer coordinates, holding
\* points of up to MaxDim axes.
MaxBuffer == 6
MaxDim == 2
\* minPointsPerLeaf given to NewKDTree ranges over 0..MaxLeaf.
MaxLeaf == 2
\* The searches build their tree on point sets of up to MaxQueryBuffer
\* coordinates (and on the large point sets below), and search with point
\* sets of up to MaxDim coordinates.
MaxQueryBuffer == 4
\* The radius ranges over -1..MaxRadius.
MaxRadius == 2
\* The large point sets hold 16+1 .. 16+MaxExtra points, so that the
\* tree the searches build (leaf size 16) has internal nodes.
MaxExtra == 2

\* The searches that run concurrently on one built tree.
MaxSearches == 2

\* UnionEdges takes up to MaxInputs tensors holding up to MaxEdges edges in
\* all; SortEdgesBySource takes a tensor of up to MaxEdges edges.
MaxInputs == 2
MaxEdges == 3

\* ------------------------------------------------------- program constants
\* radiusEdgesImpl: NewKDTree(source, dimension, 16)
RadiusMinPointsPerLeaf == 16
\* nearestEdgesImpl: NewKDTree(target, dimension, 16)
NearestMinPointsPerLeaf == 16
\* The floating-point type T. A coordinate k of the model is the float
\* k * 2^58 (float32; k * 2^506 for float64), and a squared distance s is
\* s * 2^116: the integers up to 4095 are exact floats on that scale, and a
\* result of 4096 or more, 2^128, is beyond math.MaxFloat32 = 2^128 - 2^104
\* and rounds to +Inf. Below 4096 the scale does not matter: the code
\* computes the same with the coordinate k itself.
\* math.MaxFloat32 / math.MaxFloat64 on that scale: a float of the model is
\* less than it exactly when it is less than 4096.
MaxFloat == 4096
\* +Inf, greater than MaxFloat.
Inf == MaxFloat + 1
\* The float a result that is not negative rounds to.
roundT(x) == IF x >= MaxFloat THEN Inf ELSE x
\* a * b and a + b in T, for a product and a sum that are not negative.
mulT(a, b) == IF a = Inf \/ b = Inf THEN Inf ELSE roundT(a * b)
addT(a, b) == IF a = Inf \/ b = Inf THEN Inf ELSE roundT(a + b)

\* ------------------------------------------------------------ Go slices
At(s, i) == s[i + 1]
Slice(s, lo, hi) == SubSeq(s, lo + 1, hi)

\* The nil pointer of *KDTreeNode, *KDTree and *tensors.Tensor.
NilNode == 0
Nil == [kind |-> "nil"]

\* ------------------------------------------------------- calculateBoundingBox
\* The loop over the points i.. seen on the axis d, whose bounds do not
\* depend on the other axes: <<minCoords[d], maxCoords[d]>>.
RECURSIVE boundingBoxLoop(_, _, _, _, _, _)
boundingBoxLoop(pointsData, dimension, d, i, minCoord, maxCoord) ==
    IF i >= Len(pointsData) \div dimension THEN <<minCoord, maxCoord>>
    ELSE IF At(pointsData, i * dimension + d) < minCoord
    THEN IF At(pointsData, i * dimension + d) > maxCoord
         THEN boundingBoxLoop(pointsData, dimension, d, i + 1,
                  At(pointsData, i * dimension + d), At(pointsData, i * dimension + d))
         ELSE boundingBoxLoop(pointsData, dimension, d, i + 1,
                  At(pointsData, i * dimension + d), maxCoord)
    ELSE IF At(pointsData, i * dimension + d) > maxCoord
    THEN boundingBoxLoop(pointsData, dimension, d, i + 1,
             minCoord, At(pointsData, i * dimension + d))
    ELSE boundingBoxLoop(pointsData, dimension, d, i + 1, minCoord, maxCoord)

\* A bounding box whose bounds start at the zero value instead of the first point.
calculateBoundingBoxFromZero(pointsData, dimension) ==
    <<[d \in 1..dimension |-> boundingBoxLoop(pointsData, dimension, d - 1, 0, 0, 0)[1]],
      [d \in 1..dimension |-> boundingBoxLoop(pointsData, dimension, d - 1, 0, 0, 0)[2]]>>

\* <<minCoords, maxCoords>> of the points of the flat slice pointsData.
calculateBoundingBox(pointsData, dimension) ==
    IF Len(pointsData) \div dimension = 0
    THEN <<[d \in 1..dimension |-> 0], [d \in 1..dimension |-> 0]>>
    ELSE <<[d \in 1..dimension |->
              boundingBoxLoop(pointsData, dimension, d - 1, 1,
                              At(pointsData, d - 1), At(pointsData, d - 1))[1]],
           [d \in 1..dimension |->
              boundingBoxLoop(pointsData, dimension, d - 1, 1,
                              At(pointsData, d - 1), At(pointsData, d - 1))[2]]>>

\* ------------------------------------------------------------------ buildNode
\* The last of the axes with the largest range taken instead of the first.
RECURSIVE largestRangeAxisLast(_, _, _, _, _, _)
largestRangeAxisLast(minCoords, maxCoords, dimension, axis, maxRange, splitAxis) ==
    IF axis >= dimension
    THEN [splitAxis |-> splitAxis, maxRange |-> maxRange]
    ELSE IF At(maxCoords, axis) - At(minCoords, axis) >= maxRange
         THEN largestRangeAxisLast(minCoords, maxCoords, dimension, axis + 1,
                                   At(maxCoords, axis) - At(minCoords, axis), axis)
         ELSE largestRangeAxisLast(minCoords, maxCoords, dimension, axis + 1,
                                   maxRange, splitAxis)

\* 1. the axis with the largest range: [splitAxis, maxRange].
RECURSIVE largestRangeAxis(_, _, _, _, _, _)
largestRangeAxis(minCoords, maxCoords, dimension, axis, maxRange, splitAxis) ==
    IF axis >= dimension
    THEN [splitAxis |-> splitAxis, maxRange |-> maxRange]
    ELSE IF At(maxCoords, axis) - At(minCoords, axis) > maxRange
         THEN largestRangeAxis(minCoords, maxCoords, dimension, axis + 1,
                               At(maxCoords, axis) - At(minCoords, axis), axis)
         ELSE largestRangeAxis(minCoords, maxCoords, dimension, axis + 1,
                               maxRange, splitAxis)

\* All the sequences that list the elements of the set S once each.
RECURSIVE Orderings(_)
Orderings(S) ==
    IF S = {} THEN {<<>>}
    ELSE UNION {{<<x>> \o rest : rest \in Orderings(S \ {x})} : x \in S}

\* 2. sort.Slice(order, less) with less comparing the split-axis values.
\* sort.Slice makes no promise on the order of equal elements.  The Go
\* version of go.mod sorts a slice of up to 12 elements by insertion sort,
\* which keeps equal elements in their order: stableFrom.  A longer slice
\* goes through pdqsort: every order of the positions 0..n-1 that lists the
\* split-axis values in non-decreasing order is taken as an outcome: sortedFrom.
RECURSIVE stableFrom(_, _)
stableFrom(keys, remaining) ==
    IF remaining = {} THEN <<>>
    ELSE LET next == CHOOSE i \in remaining : \A j \in remaining :
                        \/ At(keys, i) < At(keys, j)
                        \/ At(keys, i) = At(keys, j) /\ i <= j
         IN  <<next>> \o stableFrom(keys, remaining \ {next})

RECURSIVE sortedFrom(_, _)
sortedFrom(keys, remaining) ==
    IF remaining = {} THEN {<<>>}
    ELSE LET lowest == CHOOSE v \in remaining : \A w \in remaining : v <= w
             ties   == {i \in 0..(Len(keys) - 1) : At(keys, i) = lowest}
         IN  {first \o rest : first \in Orderings(ties),
                              rest \in sortedFrom(keys, remaining \ {lowest})}

sortSliceOutcomes(Points, dimension, splitAxis, startPointIdx, numPointsInNode) ==
    LET keys == [k \in 1..numPointsInNode |->
                    At(Points, (k - 1 + startPointIdx) * dimension + splitAxis)]
    IN  IF numPointsInNode <= 12
        THEN {stableFrom(keys, 0..(numPointsInNode - 1))}
        ELSE sortedFrom(keys, {keys[k] : k \in 1..numPointsInNode})

\* The reordered tree.Points: the point at node position dstIdx is the point
\* that was at node position order[dstIdx].
reorderPoints(Points, order, dimension, startPointIdx, endPointIdx) ==
    [j \in 1..Len(Points) |->
        IF startPointIdx * dimension <= j - 1 /\ j - 1 < endPointIdx * dimension
        THEN LET rel == j - 1 - startPointIdx * dimension
             IN  At(Points, (At(order, rel \div dimension) + startPointIdx) * dimension
                            + (rel % dimension))
        ELSE Points[j]]

\* The original indices left where they were while the points move.
reorderOrderKept(Order, order, startPointIdx, endPointIdx) ==
    Order

\* The reordered tree.Order: tempOrder[dstIdx] = tree.Order[order[dstIdx] + start].
reorderOrder(Order, order, startPointIdx, endPointIdx) ==
    [i \in 1..Len(Order) |->
        IF startPointIdx <= i - 1 /\ i - 1 < endPointIdx
        THEN At(Order, At(order, i - 1 - startPointIdx) + startPointIdx)
        ELSE Order[i]]

\* The scan stopped one position after the start of the range.
RECURSIVE adjustMedianStopsEarly(_, _, _, _, _, _)
adjustMedianStopsEarly(Points, dimension, splitAxis, startPointIdx, medianPointIdx, splitValue) ==
    IF /\ medianPointIdx > startPointIdx + 1
       /\ At(Points, (medianPointIdx - 1) * dimension + splitAxis) >= splitValue
    THEN adjustMedianStopsEarly(Points, dimension, splitAxis, startPointIdx,
                                medianPointIdx - 1, splitValue)
    ELSE medianPointIdx

\* The median taken as the split point without looking at the values before it.
adjustMedianNoScan(Points, dimension, splitAxis, startPointIdx, medianPointIdx, splitValue) ==
    medianPointIdx

\* 3. the first position of the sorted range whose value is SplitValue.
RECURSIVE adjustMedian(_, _, _, _, _, _)
adjustMedian(Points, dimension, splitAxis, startPointIdx, medianPointIdx, splitValue) ==
    IF /\ medianPointIdx > startPointIdx
       /\ At(Points, (medianPointIdx - 1) * dimension + splitAxis) >= splitValue
    THEN adjustMedian(Points, dimension, splitAxis, startPointIdx,
                      medianPointIdx - 1, splitValue)
    ELSE medianPointIdx

\* The right child started one position late.
childCallsGap(startPointIdx, medianPointIdx, endPointIdx) ==
    <<[start |-> startPointIdx, end |-> medianPointIdx, side |-> "Left"],
      [start |-> medianPointIdx + 1, end |-> endPointIdx, side |-> "Right"]>>

\* The right child built over the whole range of its parent.
childCallsWholeRange(startPointIdx, medianPointIdx, endPointIdx) ==
    <<[start |-> startPointIdx, end |-> medianPointIdx, side |-> "Left"],
      [start |-> startPointIdx, end |-> endPointIdx, side |-> "Right"]>>

\* The recursive calls of buildNode, in the order they are made.
childCalls(startPointIdx, medianPointIdx, endPointIdx) ==
    (IF medianPointIdx > startPointIdx
     THEN <<[start |-> startPointIdx, end |-> medianPointIdx, side |-> "Left"]>>
     ELSE <<>>)
    \o
    (IF medianPointIdx < endPointIdx
     THEN <<[start |-> medianPointIdx, end |-> endPointIdx, side |-> "Right"]>>
     ELSE <<>>)

\* KDTreeNode.IsLeaf
IsLeaf(node) == node.Left = NilNode /\ node.Right = NilNode

newNode(box, startPointIdx, endPointIdx) ==
    [Min |-> box[1], Max |-> box[2],
     StartIdx |-> startPointIdx, EndIdx |-> endPointIdx,
     Left |-> NilNode, Right |-> NilNode,
     SplitAxis |-> 0, SplitValue |-> 0]

\* One call of buildNode up to its recursive calls: the set (one element per
\* outcome of the sort) of [node, Points, Order, calls], calls being the
\* recursive calls it goes on to make.
\* A node made a leaf only when it holds fewer points than the threshold.
leafBySizeStrict(numPointsInNode, minPointsPerLeaf) ==
    numPointsInNode < minPointsPerLeaf

\* "if numPointsInNode <= minPointsPerLeaf": this node is a leaf.
leafBySize(numPointsInNode, minPointsPerLeaf) ==
    numPointsInNode <= minPointsPerLeaf

buildNode(Points, Order, dimension, startPointIdx, endPointIdx, minPointsPerLeaf) ==
    LET numPointsInNode == endPointIdx - startPointIdx
        box  == calculateBoundingBox(
                    Slice(Points, startPointIdx * dimension, endPointIdx * dimension),
                    dimension)
        node == newNode(box, startPointIdx, endPointIdx)
        pick == largestRangeAxis(box[1], box[2], dimension, 0, -1, -1)
        leaf == [node |-> node, Points |-> Points, Order |-> Order, calls |-> <<>>]
    IN  IF leafBySize(numPointsInNode, minPointsPerLeaf) THEN {leaf}
        ELSE IF pick.maxRange = 0 THEN {leaf}
        ELSE
          { LET sortedPoints == reorderPoints(Points, order, dimension,
                                              startPointIdx, endPointIdx)
                sortedOrder  == reorderOrder(Order, order, startPointIdx, endPointIdx)
                median       == startPointIdx + numPointsInNode \div 2
                splitValue   == At(sortedPoints, median * dimension + pick.splitAxis)
                splitPoint   == adjustMedian(sortedPoints, dimension, pick.splitAxis,
                                             startPointIdx, median, splitValue)
                split        == [node EXCEPT !.SplitAxis = pick.splitAxis,
                                             !.SplitValue = splitValue]
            IN  [node   |-> split,
                 Points |-> sortedPoints,
                 Order  |-> sortedOrder,
                 calls  |-> IF splitPoint = startPointIdx THEN <<>>
                            ELSE childCalls(startPointIdx, splitPoint, endPointIdx)]
            : order \in sortSliceOutcomes(Points, dimension, pick.splitAxis,
                                          startPointIdx, numPointsInNode) }

\* ------------------------------------------------------------------ NewKDTree
\* The argument check that leaves out minPointsPerLeaf.
newKDTreeErrorNoLeafCheck(pointsData, dimension, minPointsPerLeaf) ==
    IF Len(pointsData) = 0 THEN "NewKDTree with empty pointsData"
    ELSE IF dimension <= 0 THEN "number of dimensions (dimension) must be positive"
    ELSE IF Len(pointsData) % dimension # 0
         THEN "length of pointsData must be a multiple of the dimension of each point"
    ELSE ""

\* The error NewKDTree returns for its arguments, "" when it returns none.
newKDTreeError(pointsData, dimension, minPointsPerLeaf) ==
    IF Len(pointsData) = 0 THEN "NewKDTree with empty pointsData"
    ELSE IF dimension <= 0 THEN "number of dimensions (dimension) must be positive"
    ELSE IF Len(pointsData) % dimension # 0
         THEN "length of pointsData must be a multiple of the dimension of each point"
    ELSE IF minPointsPerLeaf < 1 THEN "minPointsPerLeaf must be at least 1"
    ELSE ""

\* The KDTree NewKDTree allocates before it builds the nodes.
\* The tree with Points: pointsData, the caller's buffer itself.
newTreeNoClone(pointsData, dimension) ==
    [kind      |-> "tree",
     Points    |-> pointsData,
     PointsArray |-> "pointsData",
     NumPoints |-> Len(pointsData) \div dimension,
     Dimension |-> dimension,
     Order     |-> [i \in 1..(Len(pointsData) \div dimension) |-> i - 1],
     Root      |-> NilNode]

\* tree := &KDTree{Points: slices.Clone(pointsData), ...}: PointsArray is the
\* array the slice Points lies in, the clone or the caller's pointsData.
newTree(pointsData, dimension) ==
    [kind      |-> "tree",
     Points    |-> pointsData,
     PointsArray |-> "clone",
     NumPoints |-> Len(pointsData) \div dimension,
     Dimension |-> dimension,
     Order     |-> [i \in 1..(Len(pointsData) \div dimension) |-> i - 1],
     Root      |-> NilNode]

\* NewKDTree up to the call of buildNode on the root: the error, the tree and
\* the pending call of buildNode.
newKDTreeEnter(pointsData, dimension, minPointsPerLeaf) ==
    IF newKDTreeError(pointsData, dimension, minPointsPerLeaf) # ""
    THEN [err   |-> newKDTreeError(pointsData, dimension, minPointsPerLeaf),
          tree  |-> Nil,
          calls |-> <<>>]
    ELSE IF Len(pointsData) \div dimension = 0
    THEN [err   |-> "",
          tree  |-> [kind |-> "tree", Points |-> <<>>, PointsArray |-> "nil",
                     NumPoints |-> 0,
                     Dimension |-> dimension, Order |-> <<>>, Root |-> NilNode],
          calls |-> <<>>]
    ELSE [err   |-> "",
          tree  |-> newTree(pointsData, dimension),
          calls |-> <<[start |-> 0, end |-> Len(pointsData) \div dimension,
                       parent |-> NilNode, side |-> "Root"]>>]

\* ---------------------------------------------------------------- tensors
\* A *tensors.Tensor: its dtype, its shape and its flat row-major data.
Tensor(dtype, shape, flat) ==
    [kind |-> "tensor", dtype |-> dtype, shape |-> shape, flat |-> flat]
\* Shape.Rank()
Rank(t) == Len(t.shape)
\* Shape.Size(): the product of the dimensions.
RECURSIVE product(_)
product(dims) == IF dims = <<>> THEN 1 ELSE Head(dims) * product(Tail(dims))
Size(t) == product(t.shape)
\* The [2, numEdges] Int32 tensor both Done build: the source indices, then
\* the target indices.
edgesTensor(edgesSrc, edgesTgt) ==
    Tensor("Int32", <<2, Len(edgesSrc)>>, edgesSrc \o edgesTgt)

\* -------------------------------------------------------------------- l2Dist2
RECURSIVE l2Dist2(_, _)
l2Dist2(a, b) ==
    IF a = <<>> THEN 0
    ELSE addT(l2Dist2(SubSeq(a, 1, Len(a) - 1), SubSeq(b, 1, Len(a) - 1)),
              mulT(a[Len(a)] - b[Len(a)], a[Len(a)] - b[Len(a)]))

\* --------------------------------------------- radiusIntersectWithBoundingBox
RECURSIVE radiusIntersectLoop(_, _, _, _, _, _, _, _)
radiusIntersectLoop(point, boundaryMax, boundaryMin, dimension, radius, radius2, axis, closestPoint) ==
    IF axis >= dimension THEN l2Dist2(point, closestPoint) <= radius2
    ELSE IF At(point, axis) < At(boundaryMin, axis)
    THEN IF At(boundaryMin, axis) - At(point, axis) > radius THEN FALSE
         ELSE radiusIntersectLoop(point, boundaryMax, boundaryMin, dimension, radius,
                  radius2, axis + 1, Append(closestPoint, At(boundaryMin, axis)))
    ELSE IF At(point, axis) > At(boundaryMax, axis)
    THEN IF At(point, axis) - At(boundaryMax, axis) > radius THEN FALSE
         ELSE radiusIntersectLoop(point, boundaryMax, boundaryMin, dimension, radius,
                  radius2, axis + 1, Append(closestPoint, At(boundaryMax, axis)))
    ELSE radiusIntersectLoop(point, boundaryMax, boundaryMin, dimension, radius,
             radius2, axis + 1, Append(closestPoint, At(point, axis)))

\* The two corners of the bounding box taken one for the other.
radiusIntersectCornersSwapped(point, boundaryMax, boundaryMin, dimension, radius, radius2) ==
    radiusIntersectLoop(point, boundaryMin, boundaryMax, dimension, radius, radius2,
                        0, <<>>)

radiusIntersectWithBoundingBox(point, boundaryMax, boundaryMin, dimension, radius, radius2) ==
    radiusIntersectLoop(point, boundaryMax, boundaryMin, dimension, radius, radius2,
                        0, <<>>)

\* --------------------------------------------------- radiusEdgesRecursiveImpl
\* "Trim target to only those that fit the bounding-box": the remaining
\* target points and their indices.
RECURSIVE trimTarget(_, _, _, _, _, _, _, _, _)
trimTarget(kdNode, target, targetIndices, dimension, radius, radius2, targetPointIdx, remainingTarget, remainingTargetIndices) ==
    IF targetPointIdx >= Len(targetIndices)
    THEN [target |-> remainingTarget, targetIndices |-> remainingTargetIndices]
    ELSE IF radiusIntersectWithBoundingBox(
                Slice(target, targetPointIdx * dimension, (targetPointIdx + 1) * dimension),
                kdNode.Max, kdNode.Min, dimension, radius, radius2)
    THEN trimTarget(kdNode, target, targetIndices, dimension, radius, radius2,
             targetPointIdx + 1,
             remainingTarget \o Slice(target, targetPointIdx * dimension,
                                      (targetPointIdx + 1) * dimension),
             Append(remainingTargetIndices, At(targetIndices, targetPointIdx)))
    ELSE trimTarget(kdNode, target, targetIndices, dimension, radius, radius2,
             targetPointIdx + 1, remainingTarget, remainingTargetIndices)

\* The brute force of a leaf with its loops exchanged: target by target and,
\* for a target, source by source.
RECURSIVE leafEdgesLoopTargetOuter(_, _, _, _, _, _, _, _, _, _)
leafEdgesLoopTargetOuter(Points, Order, kdNode, target, targetIndices, dimension, radius2, sourcePointIdx, targetPointIdx, edges) ==
    IF targetPointIdx >= Len(targetIndices) THEN edges
    ELSE IF sourcePointIdx >= kdNode.EndIdx
    THEN leafEdgesLoopTargetOuter(Points, Order, kdNode, target, targetIndices, dimension,
                                  radius2, kdNode.StartIdx, targetPointIdx + 1, edges)
    ELSE IF l2Dist2(Slice(Points, sourcePointIdx * dimension,
                          sourcePointIdx * dimension + dimension),
                    Slice(target, targetPointIdx * dimension,
                          targetPointIdx * dimension + dimension)) <= radius2
    THEN leafEdgesLoopTargetOuter(Points, Order, kdNode, target, targetIndices, dimension,
             radius2, sourcePointIdx + 1, targetPointIdx,
             [edgesSource |-> Append(edges.edgesSource, At(Order, sourcePointIdx)),
              edgesTarget |-> Append(edges.edgesTarget, At(targetIndices, targetPointIdx))])
    ELSE leafEdgesLoopTargetOuter(Points, Order, kdNode, target, targetIndices, dimension,
             radius2, sourcePointIdx + 1, targetPointIdx, edges)

\* The brute force of a leaf: the edges it appends, source by source and,
\* for a source, target by target.
RECURSIVE leafEdgesLoop(_, _, _, _, _, _, _, _, _, _)
leafEdgesLoop(Points, Order, kdNode, target, targetIndices, dimension, radius2, sourcePointIdx, targetPointIdx, edges) ==
    IF sourcePointIdx >= kdNode.EndIdx THEN edges
    ELSE IF targetPointIdx >= Len(targetIndices)
    THEN leafEdgesLoop(Points, Order, kdNode, target, targetIndices, dimension, radius2,
                       sourcePointIdx + 1, 0, edges)
    ELSE IF l2Dist2(Slice(Points, sourcePointIdx * dimension,
                          sourcePointIdx * dimension + dimension),
                    Slice(target, targetPointIdx * dimension,
                          targetPointIdx * dimension + dimension)) <= radius2
    THEN leafEdgesLoop(Points, Order, kdNode, target, targetIndices, dimension, radius2,
             sourcePointIdx, targetPointIdx + 1,
             [edgesSource |-> Append(edges.edgesSource, At(Order, sourcePointIdx)),
              edgesTarget |-> Append(edges.edgesTarget, At(targetIndices, targetPointIdx))])
    ELSE leafEdgesLoop(Points, Order, kdNode, target, targetIndices, dimension, radius2,
             sourcePointIdx, targetPointIdx + 1, edges)

\* The leaf's loop over the sources started at position 0 instead of StartIdx.
leafEdgesFromZero(Points, Order, kdNode, target, targetIndices, dimension, radius2, edges) ==
    leafEdgesLoop(Points, Order, kdNode, target, targetIndices, dimension, radius2,
                  0, 0, edges)

leafEdges(Points, Order, kdNode, target, targetIndices, dimension, radius2, edges) ==
    leafEdgesLoop(Points, Order, kdNode, target, targetIndices, dimension, radius2,
                  kdNode.StartIdx, 0, edges)

\* One call of radiusEdgesRecursiveImpl up to its recursive calls: the edges
\* after it and the recursive calls it goes on to make.
radiusEdgesRecursiveImpl(Points, Order, kdNode, target, targetIndices, dimension, radius, radius2, edges) ==
    LET remaining == trimTarget(kdNode, target, targetIndices, dimension, radius,
                                radius2, 0, <<>>, <<>>)
        selected  == IF Len(remaining.targetIndices) # Len(targetIndices)
                     THEN remaining
                     ELSE [target |-> target, targetIndices |-> targetIndices]
    IN  IF Len(remaining.target) = 0
        THEN [edges |-> edges, calls |-> <<>>]
        ELSE IF IsLeaf(kdNode)
        THEN [edges |-> leafEdges(Points, Order, kdNode, selected.target,
                                  selected.targetIndices, dimension, radius2, edges),
              calls |-> <<>>]
        ELSE [edges |-> edges,
              calls |-> <<[node |-> kdNode.Left, target |-> selected.target,
                           targetIndices |-> selected.targetIndices],
                          [node |-> kdNode.Right, target |-> selected.target,
                           targetIndices |-> selected.targetIndices]>>]

\* ----------------------------------------------------- RadiusEdgesConfig.Done
\* The error Done returns before it calls radiusEdgesImpl, "" for none.
radiusEdgesDoneErrorDTypeFirst(src, tgt) ==
    IF Rank(src) # 2 \/ Rank(tgt) # 2 THEN "source and target must be rank 2"
    ELSE IF src.dtype # tgt.dtype THEN "DType of the source and target must match"
    ELSE IF src.shape[2] # tgt.shape[2]
         THEN "dimension of the points for source and target must match"
    ELSE IF src.dtype \notin {"Float32", "Float64"}
         THEN "DType must be either Float32 or Float64"
    ELSE ""

radiusEdgesDoneError(src, tgt) ==
    IF Rank(src) # 2 \/ Rank(tgt) # 2 THEN "source and target must be rank 2"
    ELSE IF src.shape[2] # tgt.shape[2]
         THEN "dimension of the points for source and target must match"
    ELSE IF src.dtype # tgt.dtype THEN "DType of the source and target must match"
    ELSE IF src.dtype \notin {"Float32", "Float64"}
         THEN "DType must be either Float32 or Float64"
    ELSE ""

\* What Done returns after radiusEdgesImpl without the check for no edges.
radiusEdgesResultEmptyAllowed(edgesSrc, edgesTgt) ==
    IF Len(edgesTgt) # Len(edgesSrc)
    THEN [err |-> "edges number of source indices different from the number of target indices",
          returned |-> Nil]
    ELSE [err |-> "", returned |-> edgesTensor(edgesSrc, edgesTgt)]

\* What Done returns after radiusEdgesImpl: an error without edges, else the
\* edges tensor.
radiusEdgesResult(edgesSrc, edgesTgt) ==
    IF Len(edgesTgt) # Len(edgesSrc)
    THEN [err |-> "edges number of source indices different from the number of target indices",
          returned |-> Nil]
    ELSE IF Len(edgesSrc) = 0
    THEN [err |-> "no edges found", returned |-> Nil]
    ELSE [err |-> "", returned |-> edgesTensor(edgesSrc, edgesTgt)]

\* ------------------------------------------------------- findNearestRecursive
\* The leaf's scan: the best match after the positions i..EndIdx-1.
RECURSIVE nearestLeafScan(_, _, _, _, _, _)
nearestLeafScan(Points, dimension, node, point, i, bestMatch) ==
    IF i >= node.EndIdx THEN bestMatch
    ELSE IF l2Dist2(point, Slice(Points, i * dimension, (i + 1) * dimension))
                < bestMatch.dist2
    THEN nearestLeafScan(Points, dimension, node, point, i + 1,
             [index |-> i,
              dist2 |-> l2Dist2(point, Slice(Points, i * dimension, (i + 1) * dimension))])
    ELSE nearestLeafScan(Points, dimension, node, point, i + 1, bestMatch)

\* The child across the split taken first.
nearestBranchesFarFirst(node, point) ==
    IF At(point, node.SplitAxis) < node.SplitValue
    THEN <<node.Right, node.Left>>
    ELSE <<node.Left, node.Right>>

\* <<first, second>>: the child on the point's side of the split, then the other.
nearestBranches(node, point) ==
    IF At(point, node.SplitAxis) < node.SplitValue
    THEN <<node.Left, node.Right>>
    ELSE <<node.Right, node.Left>>

\* The other branch never searched.
checkOtherBranchNever(node, point, bestMatch) ==
    FALSE

\* "Check if we need to check the other branch": distToSplit2 < best.dist2.
checkOtherBranch(node, point, bestMatch) ==
    mulT(At(point, node.SplitAxis) - node.SplitValue,
         At(point, node.SplitAxis) - node.SplitValue) < bestMatch.dist2

\* The position in the tree returned without its translation through Order.
findNearestResultUntranslated(Order, bestMatch) ==
    bestMatch.index

\* findNearest's result: int32(kd.Order[best.index]).
findNearestResult(Order, bestMatch) ==
    At(Order, bestMatch.index)

\* The two indices stored in each other's row.
nearestEdgeSwapped(i, bestTargetIdx) ==
    <<bestTargetIdx, i>>

\* The edge nearestEdgesImpl stores at position i: <<edgesSource[i], edgesTarget[i]>>.
nearestEdge(i, bestTargetIdx) ==
    <<i, bestTargetIdx>>

\* ---------------------------------------------------- NearestEdgesConfig.Done
\* The error Done returns before it calls nearestEdgesImpl, "" for none.
\* Done's checks with the test for empty sets made after those of the
\* dimension and the dtype.
nearestEdgesDoneErrorEmptyLast(src, tgt) ==
    IF src = Nil \/ tgt = Nil THEN "nearest edges source or target are empty"
    ELSE IF Rank(src) # 2 \/ Rank(tgt) # 2 THEN "source and target must be rank 2"
    ELSE IF src.shape[2] # tgt.shape[2]
         THEN "dimension of the points for source and target must match"
    ELSE IF src.dtype # tgt.dtype THEN "DType of the source and target must match"
    ELSE IF Size(src) = 0 \/ Size(tgt) = 0
         THEN "nearest edges source or target are empty"
    ELSE IF src.dtype \notin {"Float32", "Float64"}
         THEN "DType must be either Float32 or Float64"
    ELSE ""

nearestEdgesDoneError(src, tgt) ==
    IF src = Nil \/ tgt = Nil THEN "nearest edges source or target are empty"
    ELSE IF Size(src) = 0 \/ Size(tgt) = 0
         THEN "nearest edges source or target are empty"
    ELSE IF Rank(src) # 2 \/ Rank(tgt) # 2 THEN "source and target must be rank 2"
    ELSE IF src.shape[2] # tgt.shape[2]
         THEN "dimension of the points for source and target must match"
    ELSE IF tgt.shape[1] = 0 THEN "target tensor cannot be empty"
    ELSE IF src.dtype # tgt.dtype THEN "DType of the source and target must match"
    ELSE IF src.dtype \notin {"Float32", "Float64"}
         THEN "DType must be either Float32 or Float64"
    ELSE ""

\* ------------------------------------------------------------- package graph
checkEdges(edgesT) ==
    IF Rank(edgesT) # 2 \/ edgesT.shape[1] # 2
    THEN "invalid shape for edges tensor"
    ELSE IF edgesT.dtype # "Int32" THEN "invalid dtype for edges tensor"
    ELSE ""

\* The edge at i with the target read from the row of the sources.
edgeOfSourceRow(edgesT, i) ==
    <<At(edgesT.flat, i), At(edgesT.flat, i)>>

\* edge{source: sourceNodes[i], target: targetNodes[i]} of a [2, numEdges]
\* tensor: row 0 holds the sources, row 1 the targets.
edgeOf(edgesT, i) ==
    <<At(edgesT.flat, i), At(edgesT.flat, i + edgesT.shape[2])>>

\* UnionEdges' loop over its inputs from input k on: the error of the first
\* tensor checkEdges rejects, and the unique edges collected.
RECURSIVE unionEdgesLoop(_, _, _)
unionEdgesLoop(inputs, k, uniqueEdges) ==
    IF k > Len(inputs) THEN [err |-> "", uniqueEdges |-> uniqueEdges]
    ELSE IF inputs[k] = Nil THEN unionEdgesLoop(inputs, k + 1, uniqueEdges)
    ELSE IF Size(inputs[k]) = 0 THEN unionEdgesLoop(inputs, k + 1, uniqueEdges)
    ELSE IF checkEdges(inputs[k]) # ""
    THEN [err |-> checkEdges(inputs[k]), uniqueEdges |-> uniqueEdges]
    ELSE unionEdgesLoop(inputs, k + 1,
             uniqueEdges \cup {edgeOf(inputs[k], i) : i \in 0..(inputs[k].shape[2] - 1)})

\* "for e := range uniqueEdges": the orders in which the map can hand out
\* its keys, which Go leaves unspecified.
mapRangeOrders(uniqueEdges) ==
    {o \in [1..Cardinality(uniqueEdges) -> uniqueEdges] :
        \A i, j \in 1..Cardinality(uniqueEdges) : i # j => o[i] # o[j]}

\* What UnionEdges(inputs...) can return: <<error, tensor>>.
unionEdgesOutcomes(inputs) ==
    IF Len(inputs) = 0 THEN {[err |-> "no input edges provided", returned |-> Nil]}
    ELSE LET out == unionEdgesLoop(inputs, 1, {})
         IN  IF out.err # "" THEN {[err |-> out.err, returned |-> Nil]}
             ELSE IF Cardinality(out.uniqueEdges) = 0
             THEN {[err |-> "", returned |-> Tensor("Int32", <<2, 0>>, <<>>)]}
             ELSE {[err |-> "",
                    returned |-> Tensor("Int32", <<2, Cardinality(out.uniqueEdges)>>,
                                        [i \in 1..(2 * Len(o)) |->
                                            IF i <= Len(o) THEN o[i][1]
                                            ELSE o[i - Len(o)][2]])]
                   : o \in mapRangeOrders(out.uniqueEdges)}

\* edgesSortableBySource: Len, Less and Swap over the flat data.
edgesLen(flat) == Len(flat) \div 2

Less(flat, i, j) ==
    IF At(flat, i) # At(flat, j) THEN At(flat, i) < At(flat, j)
    ELSE At(flat, i + edgesLen(flat)) < At(flat, j + edgesLen(flat))

\* The source ids exchanged and the target ids left where they are.
SwapSourcesOnly(flat, i, j) ==
    [flat EXCEPT ![i + 1] = At(flat, j), ![j + 1] = At(flat, i)]

Swap(flat, i, j) ==
    [flat EXCEPT ![i + 1] = At(flat, j),
                 ![j + 1] = At(flat, i),
                 ![i + edgesLen(flat) + 1] = At(flat, j + edgesLen(flat)),
                 ![j + edgesLen(flat) + 1] = At(flat, i + edgesLen(flat))]

\* sort.Sort(data): for the lengths of the model (up to 12 elements) it is
\* an insertion sort made of data.Less(j, j-1) and data.Swap(j, j-1).
RECURSIVE insertionSortInner(_, _, _)
insertionSortInner(flat, j, a) ==
    IF j > a /\ Less(flat, j, j - 1)
    THEN insertionSortInner(Swap(flat, j, j - 1), j - 1, a)
    ELSE flat

RECURSIVE insertionSort(_, _, _, _)
insertionSort(flat, i, a, b) ==
    IF i >= b THEN flat
    ELSE insertionSort(insertionSortInner(flat, i, a), i + 1, a, b)

sortSort(flat) == insertionSort(flat, 1, 0, edgesLen(flat))

\* ---------------------------------------------------------------------- state
VARIABLES
    op,                 \* the operation called
    pointsData,         \* NewKDTree's arguments
    dimension,
    minPointsPerLeaf,
    source,             \* the searches' arguments
    target,
    radius,
    pc,                 \* "call", "build", "radius", "nearest", "findNearest", "done"
    tree,               \* the KDTree under construction or built, Nil before
    nodes,              \* the KDTreeNodes allocated, a node's pointer is its position
    buildStack,         \* the pending calls of buildNode, next call first
    searchStack,        \* the pending calls of the search, next call first
    searches,           \* the searches running concurrently on one built tree
    inputEdges,         \* UnionEdges' arguments; the tensor SortEdgesBySource was given
    edges,              \* SortEdgesBySource's tensor, sorted in place
    sourceIdx,          \* nearestEdgesImpl's loop index i
    best,               \* findNearest's nearestBestMatch
    edgesSource,        \* the edges emitted so far
    edgesTarget,
    returned,           \* the value returned, Nil with an error
    err                 \* the error returned, "" for none

vars == <<op, pointsData, dimension, minPointsPerLeaf, source, target, radius, pc,
          tree, nodes, buildStack, searchStack, searches, inputEdges, edges,
          sourceIdx, best,
          edgesSource, edgesTarget, returned, err>>

args == <<op, source, target, radius>>
graph == <<inputEdges, edges>>
search == <<searchStack, sourceIdx, best, edgesSource, edgesTarget>>

\* -------------------------------------------------------------------- inputs
\* The flat buffers of length n over the coordinates 0..MaxCoord.
FlatBuffers(n) == [1..n -> 0..MaxCoord]

\* NewKDTree's inputs: every buffer of up to MaxBuffer coordinates, with every
\* dimension in -1..MaxDim and every leaf size in 0..MaxLeaf.
KDTreeBuffers == UNION {FlatBuffers(n) : n \in 0..MaxBuffer}

\* The point sets of a search that are enumerated in full: every [n, d]
\* Float32 tensor of at most maxFlat coordinates taken from coords.
PointSets(d, maxFlat, coords) ==
    UNION {{Tensor("Float32", <<n, d>>, flat) : flat \in [1..(n * d) -> coords]}
           : n \in 0..(maxFlat \div d)}

\* The large point sets: 16+1 .. 16+MaxExtra points, each axis following a
\* pattern: ascending, descending, alternating low and high, or constant.
BigCoord(pattern, i, n) ==
    CASE pattern = "asc"  -> 2 * i
      [] pattern = "desc" -> 2 * (n - 1 - i)
      [] pattern = "zig"  -> IF i % 2 = 0 THEN i ELSE 2 * n - i
      [] pattern = "flat" -> 1

BigPatterns(d) ==
    IF d = 1 THEN {<<"asc">>, <<"desc">>, <<"zig">>}
    ELSE {[a \in 1..d |-> IF a = 1 THEN p[1] ELSE IF a = 2 THEN p[2] ELSE "flat"]
          : p \in {<<"asc", "desc">>, <<"flat", "zig">>, <<"asc", "zig">>,
                   <<"desc", "flat">>}}

\* The last point takes its first coordinate from point dup (none when
\* dup = -1), which ties two points on that axis.
BigPointSets(d) ==
    {Tensor("Float32", <<n, d>>,
            [j \in 1..(n * d) |->
                LET i == (j - 1) \div d
                    a == (j - 1) % d
                IN  IF i = n - 1 /\ a = 0 /\ dup >= 0
                    THEN BigCoord(pattern[1], dup, n)
                    ELSE BigCoord(pattern[a + 1], i, n)])
     : n \in (RadiusMinPointsPerLeaf + 1)..(RadiusMinPointsPerLeaf + MaxExtra),
       pattern \in BigPatterns(d),
       dup \in {-1, 0, RadiusMinPointsPerLeaf \div 2 - 1}}

\* The coordinates of the points searched against a large point set: one at
\* the low end and one on each side of the middle of the large set's values.
BigQueryCoords ==
    {1, RadiusMinPointsPerLeaf - 1, RadiusMinPointsPerLeaf + 1}

\* The coordinates of the point sets of a search that are enumerated in full.
SearchCoords == 0..(MaxCoord - 1)

\* The least coordinate whose square is +Inf: with a point at 0, a point so
\* far that their squared distance overflows T.
FarCoord == CHOOSE k \in 1..MaxFloat : k * k >= MaxFloat /\ (k - 1) * (k - 1) < MaxFloat

\* Tensors of every dtype, rank and point dimension, for the checks of Done.
ShapedTensors ==
    {Tensor(dtype, shape, [j \in 1..product(shape) |-> 1])
     : dtype \in {"Float32", "Float64", "Int32"},
       shape \in {<<1, 1>>, <<1, 2>>, <<0, 1>>, <<0, 2>>, <<2>>}}

\* <<indexed, other>>: the point set the search builds its tree on and the
\* point set it searches with.
SearchPairs ==
    UNION {
        (PointSets(d, MaxQueryBuffer, SearchCoords) \X PointSets(d, MaxDim, SearchCoords))
        \cup (BigPointSets(d) \X PointSets(d, MaxDim, BigQueryCoords))
        \cup (PointSets(d, MaxDim, {0, 1, FarCoord}) \X PointSets(d, d, {0}))
        : d \in 1..MaxDim}
    \cup (ShapedTensors \X ShapedTensors)

NoBest == [index |-> -1, dist2 |-> 0]

InitCommon ==
    /\ pc = "call"
    /\ tree = Nil
    /\ nodes = <<>>
    /\ buildStack = <<>>
    /\ searchStack = <<>>
    /\ searches = <<>>
    /\ inputEdges = <<>>
    /\ edges = Nil
    /\ sourceIdx = 0
    /\ best = NoBest
    /\ edgesSource = <<>>
    /\ edgesTarget = <<>>
    /\ returned = Nil
    /\ err = ""

InitKDTree ==
    /\ op = "NewKDTree"
    /\ pointsData \in KDTreeBuffers
    /\ dimension \in -1..MaxDim
    /\ minPointsPerLeaf \in 0..MaxLeaf
    /\ source = Nil
    /\ target = Nil
    /\ radius = 0
    /\ InitCommon

\* ------------------------------------------------------------------- actions
\* NewKDTree(pointsData, dimension, minPointsPerLeaf), up to tree.buildNode(...).
NewKDTreeCall ==
    /\ pc = "call"
    /\ op = "NewKDTree"
    /\ LET enter == newKDTreeEnter(pointsData, dimension, minPointsPerLeaf)
       IN  /\ err' = enter.err
           /\ tree' = enter.tree
           /\ buildStack' = enter.calls
           /\ pc' = IF enter.err # "" THEN "done" ELSE "build"
    /\ UNCHANGED <<args, searches, graph, pointsData, dimension, minPointsPerLeaf, nodes, search, returned>>

\* One call of tree.buildNode: the node is allocated and linked to its parent,
\* the range is sorted, and the calls for the children are pending.
BuildNode ==
    /\ pc = "build"
    /\ buildStack # <<>>
    /\ LET call == Head(buildStack)
           id   == Len(nodes) + 1
       IN  \E out \in buildNode(tree.Points, tree.Order, tree.Dimension,
                                call.start, call.end, minPointsPerLeaf) :
             /\ nodes' = Append(
                    [k \in 1..Len(nodes) |->
                        IF k # call.parent THEN nodes[k]
                        ELSE IF call.side = "Left" THEN [nodes[k] EXCEPT !.Left = id]
                        ELSE [nodes[k] EXCEPT !.Right = id]],
                    out.node)
             /\ tree' = [tree EXCEPT !.Points = out.Points,
                                     !.Order = out.Order,
                                     !.Root = IF call.side = "Root" THEN id ELSE @]
             /\ buildStack' =
                    [k \in 1..Len(out.calls) |->
                        [start |-> out.calls[k].start, end |-> out.calls[k].end,
                         parent |-> id, side |-> out.calls[k].side]]
                    \o Tail(buildStack)
             /\ pointsData' = IF tree.PointsArray = "pointsData"
                              THEN out.Points ELSE pointsData
    /\ UNCHANGED <<args, searches, graph, dimension, minPointsPerLeaf, pc, search, returned, err>>

\* NewKDTree returns the tree.
NewKDTreeReturn ==
    /\ pc = "build"
    /\ buildStack = <<>>
    /\ op = "NewKDTree"
    /\ returned' = tree
    /\ pc' = "done"
    /\ UNCHANGED <<args, searches, graph, pointsData, dimension, minPointsPerLeaf, tree, nodes,
                   buildStack, search, err>>

NextKDTree == NewKDTreeCall \/ BuildNode \/ NewKDTreeReturn

SpecKDTree == InitKDTree /\ [][NextKDTree]_vars

\* NewKDTree called on buffers of few distinct coordinates: points repeat and
\* tie on every axis.
InitKDTreeRuns ==
    /\ InitKDTree
    /\ \A i \in 1..Len(pointsData) : pointsData[i] \in SearchCoords

\* A call of buildNode is pending.
BuildNodePending == pc = "build" /\ buildStack # <<>>

\* NewKDTree runs on its caller's goroutine from the call to the return: a
\* step that can be taken is taken.  The last conjunct is WF_vars(BuildNode)
\* with ENABLED <<BuildNode>>_vars written as the guard of BuildNode, a
\* pending call having always an outcome.
SpecKDTreeRuns ==
    /\ InitKDTreeRuns /\ [][NextKDTree]_vars
    /\ WF_vars(NewKDTreeCall)
    /\ WF_vars(NewKDTreeReturn)
    /\ ([]<>(~BuildNodePending) \/ []<><<BuildNode>>_vars)

InitRadius ==
    /\ op = "RadiusEdges"
    /\ \E pair \in SearchPairs : source = pair[1] /\ target = pair[2]
    /\ radius \in -1..MaxRadius
    /\ pointsData = <<>>
    /\ dimension = 0
    /\ minPointsPerLeaf = 0
    /\ InitCommon

InitNearest ==
    /\ op = "NearestEdges"
    /\ \E pair \in SearchPairs : target = pair[1] /\ source = pair[2]
    /\ radius = 0
    /\ pointsData = <<>>
    /\ dimension = 0
    /\ minPointsPerLeaf = 0
    /\ InitCommon


\* RadiusEdgesConfig.Done up to radiusEdgesImpl's call of NewKDTree, and
\* NewKDTree up to tree.buildNode(...).
RadiusEdgesDone ==
    /\ pc = "call"
    /\ op = "RadiusEdges"
    /\ IF radiusEdgesDoneError(source, target) # ""
       THEN /\ err' = radiusEdgesDoneError(source, target)
            /\ pc' = "done"
            /\ UNCHANGED <<pointsData, dimension, minPointsPerLeaf, tree, buildStack>>
       ELSE LET enter == newKDTreeEnter(source.flat, source.shape[2],
                                        RadiusMinPointsPerLeaf)
            IN  /\ pointsData' = source.flat
                /\ dimension' = source.shape[2]
                /\ minPointsPerLeaf' = RadiusMinPointsPerLeaf
                /\ tree' = enter.tree
                /\ buildStack' = enter.calls
                /\ err' = IF enter.err # ""
                          THEN "failed to create KDTree of the source points"
                          ELSE ""
                /\ pc' = IF enter.err # "" THEN "done" ELSE "build"
    /\ UNCHANGED <<args, searches, graph, nodes, search, returned>>

\* radiusEdgesImpl after NewKDTree: the target indices 0..n-1 and the call
\* of radiusEdgesRecursiveImpl on the root.
RadiusSearchStart ==
    /\ pc = "build"
    /\ buildStack = <<>>
    /\ op = "RadiusEdges"
    /\ searchStack' = <<[node |-> tree.Root, target |-> target.flat,
                         targetIndices |->
                            [i \in 1..(Len(target.flat) \div dimension) |-> i - 1]]>>
    /\ pc' = "radius"
    /\ UNCHANGED <<args, searches, graph, pointsData, dimension, minPointsPerLeaf, tree, nodes,
                   buildStack, sourceIdx, best, edgesSource, edgesTarget, returned, err>>

\* One call of radiusEdgesRecursiveImpl.
RadiusVisit ==
    /\ pc = "radius"
    /\ searchStack # <<>>
    /\ LET call == Head(searchStack)
           out  == radiusEdgesRecursiveImpl(tree.Points, tree.Order, nodes[call.node],
                       call.target, call.targetIndices, dimension, radius,
                       mulT(radius, radius),
                       [edgesSource |-> edgesSource, edgesTarget |-> edgesTarget])
       IN  /\ edgesSource' = out.edges.edgesSource
           /\ edgesTarget' = out.edges.edgesTarget
           /\ searchStack' = out.calls \o Tail(searchStack)
    /\ UNCHANGED <<args, searches, graph, pointsData, dimension, minPointsPerLeaf, pc, tree, nodes,
                   buildStack, sourceIdx, best, returned, err>>

\* Done after radiusEdgesImpl: an error without edges, else the edges tensor.
RadiusEdgesReturn ==
    /\ pc = "radius"
    /\ searchStack = <<>>
    /\ err' = radiusEdgesResult(edgesSource, edgesTarget).err
    /\ returned' = radiusEdgesResult(edgesSource, edgesTarget).returned
    /\ pc' = "done"
    /\ UNCHANGED <<args, searches, graph, pointsData, dimension, minPointsPerLeaf, tree, nodes,
                   buildStack, search>>

\* NearestEdgesConfig.Done up to nearestEdgesImpl's call of NewKDTree, and
\* NewKDTree up to tree.buildNode(...).
NearestEdgesDone ==
    /\ pc = "call"
    /\ op = "NearestEdges"
    /\ IF nearestEdgesDoneError(source, target) # ""
       THEN /\ err' = nearestEdgesDoneError(source, target)
            /\ pc' = "done"
            /\ UNCHANGED <<pointsData, dimension, minPointsPerLeaf, tree, buildStack>>
       ELSE LET enter == newKDTreeEnter(target.flat, source.shape[2],
                                        NearestMinPointsPerLeaf)
            IN  /\ pointsData' = target.flat
                /\ dimension' = source.shape[2]
                /\ minPointsPerLeaf' = NearestMinPointsPerLeaf
                /\ tree' = enter.tree
                /\ buildStack' = enter.calls
                /\ err' = IF enter.err # ""
                          THEN "failed to create KDTree of the target points"
                          ELSE ""
                /\ pc' = IF enter.err # "" THEN "done" ELSE "build"
    /\ UNCHANGED <<args, searches, graph, nodes, search, returned>>

\* nearestEdgesImpl after NewKDTree: the two edge slices are allocated.
NearestSearchStart ==
    /\ pc = "build"
    /\ buildStack = <<>>
    /\ op = "NearestEdges"
    /\ edgesSource' = [i \in 1..(Len(source.flat) \div dimension) |-> 0]
    /\ edgesTarget' = [i \in 1..(Len(source.flat) \div dimension) |-> 0]
    /\ sourceIdx' = 0
    /\ pc' = "nearest"
    /\ UNCHANGED <<args, searches, graph, pointsData, dimension, minPointsPerLeaf, tree, nodes,
                   buildStack, searchStack, best, returned, err>>

\* The source point of the loop's current round.
sourcePoint == Slice(source.flat, sourceIdx * dimension, (sourceIdx + 1) * dimension)

\* findNearest(kd, sourcePoint, maxValue) up to findNearestRecursive on the root.
FindNearestCall ==
    /\ pc = "nearest"
    /\ sourceIdx < Len(source.flat) \div dimension
    /\ best' = [index |-> -1, dist2 |-> MaxFloat]
    /\ searchStack' = <<[kind |-> "visit", node |-> tree.Root]>>
    /\ pc' = "findNearest"
    /\ UNCHANGED <<args, searches, graph, pointsData, dimension, minPointsPerLeaf, tree, nodes,
                   buildStack, sourceIdx, edgesSource, edgesTarget, returned, err>>

\* One call of findNearestRecursive up to its first recursive call: a nil
\* node returns, a leaf is scanned, an internal node searches its first
\* branch and then comes back to decide on the second.
FindNearestVisit ==
    /\ pc = "findNearest"
    /\ searchStack # <<>>
    /\ Head(searchStack).kind = "visit"
    /\ LET id == Head(searchStack).node
       IN  IF id = NilNode
           THEN searchStack' = Tail(searchStack) /\ best' = best
           ELSE IF IsLeaf(nodes[id])
           THEN /\ best' = nearestLeafScan(tree.Points, tree.Dimension, nodes[id],
                                           sourcePoint, nodes[id].StartIdx, best)
                /\ searchStack' = Tail(searchStack)
           ELSE /\ best' = best
                /\ searchStack' =
                       <<[kind |-> "visit",
                          node |-> nearestBranches(nodes[id], sourcePoint)[1]],
                         [kind |-> "second", node |-> id]>>
                       \o Tail(searchStack)
    /\ UNCHANGED <<args, searches, graph, pointsData, dimension, minPointsPerLeaf, pc, tree, nodes,
                   buildStack, sourceIdx, edgesSource, edgesTarget, returned, err>>

\* findNearestRecursive after its first branch: the second branch is
\* searched when the split is closer than the best match.
FindNearestSecond ==
    /\ pc = "findNearest"
    /\ searchStack # <<>>
    /\ Head(searchStack).kind = "second"
    /\ LET id == Head(searchStack).node
       IN  searchStack' =
               IF checkOtherBranch(nodes[id], sourcePoint, best)
               THEN <<[kind |-> "visit",
                       node |-> nearestBranches(nodes[id], sourcePoint)[2]]>>
                    \o Tail(searchStack)
               ELSE Tail(searchStack)
    /\ UNCHANGED <<args, searches, graph, pointsData, dimension, minPointsPerLeaf, pc, tree, nodes,
                   buildStack, sourceIdx, best, edgesSource, edgesTarget, returned, err>>

\* findNearest returns kd.Order[best.index] (an index of -1 panics) and the
\* loop stores the edge of source point i.
FindNearestReturn ==
    /\ pc = "findNearest"
    /\ searchStack = <<>>
    /\ IF best.index < 0 \/ best.index >= Len(tree.Order)
       THEN /\ err' = "panic: index out of range"
            /\ pc' = "done"
            /\ UNCHANGED <<sourceIdx, edgesSource, edgesTarget>>
       ELSE LET edge == nearestEdge(sourceIdx, findNearestResult(tree.Order, best))
            IN  /\ edgesSource' = [edgesSource EXCEPT ![sourceIdx + 1] = edge[1]]
                /\ edgesTarget' = [edgesTarget EXCEPT ![sourceIdx + 1] = edge[2]]
                /\ sourceIdx' = sourceIdx + 1
                /\ pc' = "nearest"
                /\ err' = err
    /\ UNCHANGED <<args, searches, graph, pointsData, dimension, minPointsPerLeaf, tree, nodes,
                   buildStack, searchStack, best, returned>>

\* Done after nearestEdgesImpl: the edges tensor, one edge per source point.
NearestEdgesReturn ==
    /\ pc = "nearest"
    /\ sourceIdx >= Len(source.flat) \div dimension
    /\ IF Len(edgesTarget) # Len(edgesSource)
       THEN err' = "edges number of source indices different from the number of target indices"
            /\ returned' = Nil
       ELSE IF Len(edgesSource) # source.shape[1]
       THEN err' = "number of edges != number of source points" /\ returned' = Nil
       ELSE err' = "" /\ returned' = edgesTensor(edgesSource, edgesTarget)
    /\ pc' = "done"
    /\ UNCHANGED <<args, searches, graph, pointsData, dimension, minPointsPerLeaf, tree, nodes,
                   buildStack, search>>

\* ------------------------------------- searches sharing one built tree
\* A call of findNearest(kd, point, maxValue) or of radiusEdgesImpl's search
\* radiusEdgesRecursiveImpl(kd, kd.Root, target, ...), with its locals: the
\* point or target set, the pending recursive calls, the best match, the
\* edges and the result.
newSearch(kind, points, r) ==
    [kind |-> kind, points |-> points, radius |-> r, pc |-> "call", stack |-> <<>>,
     best |-> NoBest, edgesSource |-> <<>>, edgesTarget |-> <<>>, result |-> "none"]

\* One step of findNearest / findNearestRecursive for the search s whose
\* best match is bestMatch: the search and the best match after it.
findNearestStep(kd, kdNodes, s, bestMatch) ==
    IF s.pc = "call"
    THEN [s |-> [s EXCEPT !.pc = "search",
                          !.stack = <<[kind |-> "visit", node |-> kd.Root]>>],
          best |-> [index |-> -1, dist2 |-> MaxFloat]]
    ELSE IF s.stack = <<>>
    THEN [s |-> [s EXCEPT !.pc = "done",
                          !.result = IF bestMatch.index < 0
                                        \/ bestMatch.index >= Len(kd.Order)
                                     THEN "panic: index out of range"
                                     ELSE findNearestResult(kd.Order, bestMatch)],
          best |-> bestMatch]
    ELSE IF Head(s.stack).kind = "second"
    THEN [s |-> [s EXCEPT !.stack =
                    IF checkOtherBranch(kdNodes[Head(s.stack).node], s.points, bestMatch)
                    THEN <<[kind |-> "visit",
                            node |-> nearestBranches(kdNodes[Head(s.stack).node],
                                                     s.points)[2]]>>
                         \o Tail(s.stack)
                    ELSE Tail(s.stack)],
          best |-> bestMatch]
    ELSE IF Head(s.stack).node = NilNode
    THEN [s |-> [s EXCEPT !.stack = Tail(s.stack)], best |-> bestMatch]
    ELSE IF IsLeaf(kdNodes[Head(s.stack).node])
    THEN [s |-> [s EXCEPT !.stack = Tail(s.stack)],
          best |-> nearestLeafScan(kd.Points, kd.Dimension, kdNodes[Head(s.stack).node],
                                   s.points, kdNodes[Head(s.stack).node].StartIdx,
                                   bestMatch)]
    ELSE [s |-> [s EXCEPT !.stack =
                    <<[kind |-> "visit",
                       node |-> nearestBranches(kdNodes[Head(s.stack).node], s.points)[1]],
                      [kind |-> "second", node |-> Head(s.stack).node]>>
                    \o Tail(s.stack)],
          best |-> bestMatch]

\* One step of the radius search s: the target indices and the first call,
\* one call of radiusEdgesRecursiveImpl, or the return of the edges.
radiusSearchStep(kd, kdNodes, s) ==
    IF s.pc = "call"
    THEN [s EXCEPT !.pc = "search",
                   !.stack = <<[node |-> kd.Root, target |-> s.points,
                                targetIndices |->
                                   [i \in 1..(Len(s.points) \div kd.Dimension) |-> i - 1]]>>]
    ELSE IF s.stack = <<>>
    THEN [s EXCEPT !.pc = "done", !.result = <<s.edgesSource, s.edgesTarget>>]
    ELSE LET out == radiusEdgesRecursiveImpl(kd.Points, kd.Order,
                        kdNodes[Head(s.stack).node], Head(s.stack).target,
                        Head(s.stack).targetIndices, kd.Dimension, s.radius,
                        mulT(s.radius, s.radius),
                        [edgesSource |-> s.edgesSource, edgesTarget |-> s.edgesTarget])
         IN  [s EXCEPT !.edgesSource = out.edges.edgesSource,
                       !.edgesTarget = out.edges.edgesTarget,
                       !.stack = out.calls \o Tail(s.stack)]

searchStep(kd, kdNodes, s, bestMatch) ==
    IF s.kind = "nearest" THEN findNearestStep(kd, kdNodes, s, bestMatch)
    ELSE [s |-> radiusSearchStep(kd, kdNodes, s), best |-> bestMatch]

\* One nearestBestMatch for all the searches.
bestCellShared(p) ==
    1

\* best := &nearestBestMatch[T]{...}: the search p allocates its own.
bestCell(p) ==
    p

\* The concurrent searches' arguments: a large point set for the tree and,
\* for every search, a point for findNearest or one target for the radius
\* search.
SharedTrees ==
    {t \in BigPointSets(1) : t.shape[1] = NearestMinPointsPerLeaf + 1
                              /\ t.flat[2] > t.flat[3]
                              /\ t.flat[Len(t.flat)] > t.flat[Len(t.flat) - 1]}
SearchInputs ==
    {newSearch("nearest", <<q>>, 0)
        : q \in {NearestMinPointsPerLeaf - 1, NearestMinPointsPerLeaf + 1}}
    \cup {newSearch("radius", <<RadiusMinPointsPerLeaf - 1>>, 1)}

InitShared ==
    /\ op = "Searches"
    /\ \E t \in SharedTrees : pointsData = t.flat
    /\ dimension = 1
    /\ minPointsPerLeaf = NearestMinPointsPerLeaf
    /\ source = Nil
    /\ target = Nil
    /\ radius = 0
    /\ pc = "call"
    /\ tree = Nil
    /\ nodes = <<>>
    /\ buildStack = <<>>
    /\ searchStack = <<>>
    /\ searches \in [1..MaxSearches -> SearchInputs]
    /\ inputEdges = <<>>
    /\ edges = Nil
    /\ sourceIdx = 0
    /\ best = NoBest
    /\ edgesSource = <<>>
    /\ edgesTarget = <<>>
    /\ returned = Nil
    /\ err = ""

\* NewKDTree(pointsData, dimension, 16) for the shared tree, up to
\* tree.buildNode(...).
SharedTreeCall ==
    /\ pc = "call"
    /\ op = "Searches"
    /\ LET enter == newKDTreeEnter(pointsData, dimension, minPointsPerLeaf)
       IN  /\ err' = enter.err
           /\ tree' = enter.tree
           /\ buildStack' = enter.calls
           /\ pc' = IF enter.err # "" THEN "done" ELSE "build"
    /\ UNCHANGED <<args, searches, graph, pointsData, dimension, minPointsPerLeaf, nodes,
                   search, returned>>

\* NewKDTree returns the shared tree: the searches may start.
SharedTreeReturn ==
    /\ pc = "build"
    /\ buildStack = <<>>
    /\ op = "Searches"
    /\ returned' = tree
    /\ pc' = "searching"
    /\ UNCHANGED <<args, searches, graph, pointsData, dimension, minPointsPerLeaf, tree,
                   nodes, buildStack, search, err>>

\* One step of one of the searches on the shared tree.
SearchStep(p) ==
    /\ pc = "searching"
    /\ searches[p].pc # "done"
    /\ LET out == searchStep(tree, nodes, searches[p], searches[bestCell(p)].best)
       IN  searches' = [[searches EXCEPT ![p] = out.s]
                           EXCEPT ![bestCell(p)].best = out.best]
    /\ UNCHANGED <<args, graph, pointsData, dimension, minPointsPerLeaf, pc, tree, nodes,
                   buildStack, search, returned, err>>

NextShared ==
    \/ SharedTreeCall \/ BuildNode \/ SharedTreeReturn
    \/ \E p \in 1..MaxSearches : SearchStep(p)

\* ------------------------------------------------- UnionEdges, SortEdgesBySource
\* The edge tensors given to UnionEdges and SortEdgesBySource: the
\* [2, n] Int32 tensors of n edges between the nodes ends, a nil tensor,
\* and tensors of another shape or dtype, empty or not.
EdgeTensors(n, ends) ==
    {Tensor("Int32", <<2, n>>, flat) : flat \in [1..(2 * n) -> ends]}
OtherTensors ==
    {Tensor("Int32", <<3>>, <<0, 0, 0>>), Tensor("Int32", <<3, 1>>, <<0, 0, 0>>),
     Tensor("Float32", <<2, 1>>, <<0, 0>>), Tensor("Float32", <<2, 0>>, <<>>),
     Tensor("Int32", <<0>>, <<>>)}
UnionEnds == 0..1
SortEnds == 0..2

\* The sequences of k inputs holding at most budget edges in all.
RECURSIVE EdgeInputs(_, _)
EdgeInputs(k, budget) ==
    IF k = 0 THEN {<<>>}
    ELSE UNION {{<<t>> \o rest : t \in EdgeTensors(n, UnionEnds),
                                    rest \in EdgeInputs(k - 1, budget - n)}
                   : n \in 0..budget}
         \cup {<<t>> \o rest : t \in OtherTensors \cup {Nil},
                                rest \in EdgeInputs(k - 1, budget)}

InitUnion ==
    /\ op = "UnionEdges"
    /\ pointsData = <<>> /\ dimension = 0 /\ minPointsPerLeaf = 0
    /\ source = Nil /\ target = Nil /\ radius = 0
    /\ pc = "call" /\ tree = Nil /\ nodes = <<>> /\ buildStack = <<>>
    /\ searchStack = <<>> /\ searches = <<>>
    /\ \E k \in 0..MaxInputs : inputEdges \in EdgeInputs(k, MaxEdges)
    /\ edges = Nil
    /\ sourceIdx = 0 /\ best = NoBest
    /\ edgesSource = <<>> /\ edgesTarget = <<>>
    /\ returned = Nil /\ err = ""

InitSort ==
    /\ op = "SortEdgesBySource"
    /\ pointsData = <<>> /\ dimension = 0 /\ minPointsPerLeaf = 0
    /\ source = Nil /\ target = Nil /\ radius = 0
    /\ pc = "call" /\ tree = Nil /\ nodes = <<>> /\ buildStack = <<>>
    /\ searchStack = <<>> /\ searches = <<>>
    /\ edges \in OtherTensors
                 \cup UNION {EdgeTensors(n, SortEnds) : n \in 0..MaxEdges}
    /\ inputEdges = <<edges>>
    /\ sourceIdx = 0 /\ best = NoBest
    /\ edgesSource = <<>> /\ edgesTarget = <<>>
    /\ returned = Nil /\ err = ""

\* UnionEdges(inputEdges...).
UnionEdges ==
    /\ pc = "call"
    /\ op = "UnionEdges"
    /\ \E out \in unionEdgesOutcomes(inputEdges) :
          /\ err' = out.err
          /\ returned' = out.returned
    /\ pc' = "done"
    /\ UNCHANGED <<args, searches, graph, pointsData, dimension, minPointsPerLeaf,
                   tree, nodes, buildStack, search>>

\* SortEdgesBySource(edges): the tensor's flat data sorted in place.
SortEdgesBySource ==
    /\ pc = "call"
    /\ op = "SortEdgesBySource"
    /\ IF checkEdges(edges) # ""
       THEN err' = checkEdges(edges) /\ edges' = edges
       ELSE err' = "" /\ edges' = [edges EXCEPT !.flat = sortSort(edges.flat)]
    /\ pc' = "done"
    /\ UNCHANGED <<args, searches, inputEdges, pointsData, dimension, minPointsPerLeaf,
                   tree, nodes, buildStack, search, returned>>

NextRadius ==
    RadiusEdgesDone \/ BuildNode \/ RadiusSearchStart \/ RadiusVisit \/ RadiusEdgesReturn

NextNearest ==
    \/ NearestEdgesDone \/ BuildNode \/ NearestSearchStart \/ FindNearestCall
    \/ FindNearestVisit \/ FindNearestSecond \/ FindNearestReturn \/ NearestEdgesReturn

Init == InitKDTree \/ InitRadius \/ InitNearest \/ InitShared \/ InitUnion \/ InitSort

Next == NextKDTree \/ NextRadius \/ NextNearest \/ NextShared \/ UnionEdges \/ SortEdgesBySource

\* The three operations, each under its own inputs, and all of them together.
SpecRadius == InitRadius /\ [][NextRadius]_vars
SpecNearest == InitNearest /\ [][NextNearest]_vars
SpecUnion == InitUnion /\ [][UnionEdges]_vars
SpecSort == InitSort /\ [][SortEdgesBySource]_vars
SpecShared == InitShared /\ [][NextShared]_vars
SpecSearch == (InitRadius \/ InitNearest) /\ [][NextRadius \/ NextNearest]_vars
Spec == Init /\ [][Next]_vars

\* ------------------------------------------------- the tree, for the properties
NodeIds == 1..Len(nodes)
Positions(k) == nodes[k].StartIdx..(nodes[k].EndIdx - 1)
\* Coordinate d (0-based) of the point stored at tree position i.
Coord(i, d) == At(tree.Points, i * tree.Dimension + d)
\* Coordinate d of the caller's point i.
InputCoord(i, d) == At(pointsData, i * tree.Dimension + d)
Axes == 0..(tree.Dimension - 1)
Lowest(S) == CHOOSE x \in S : \A y \in S : x <= y
Highest(S) == CHOOSE x \in S : \A y \in S : x >= y
\* NewKDTree has returned the tree (to its caller or to the search that built it).
TreeBuilt == tree # Nil /\ pc \in {"radius", "nearest", "findNearest", "done"}

\* ---------------------------------------------- the searches, for the properties
\* Point i of an [n, d] tensor.
PointOf(t, i) == Slice(t.flat, i * t.shape[2], (i + 1) * t.shape[2])
NumPointsOf(t) == t.shape[1]
\* The squared Euclidean distance of two points.
RECURSIVE SumSquares(_, _, _)
SumSquares(p, q, k) ==
    IF k = 0 THEN 0 ELSE (p[k] - q[k]) * (p[k] - q[k]) + SumSquares(p, q, k - 1)
SquaredDistance(p, q) == SumSquares(p, q, Len(p))
\* The <<source, target>> columns of a [2, n] edges tensor.
EdgeAt(t, k) == <<At(t.flat, k), At(t.flat, k + t.shape[2])>>
EdgeSet(t) == {EdgeAt(t, k) : k \in 0..(t.shape[2] - 1)}
RadiusSucceeded == op = "RadiusEdges" /\ pc = "done" /\ err = ""
NearestSucceeded == op = "NearestEdges" /\ pc = "done" /\ err = ""
\* The pairs a brute force over all sources and targets finds within the radius.
BruteForcePairs ==
    {e \in (0..(NumPointsOf(source) - 1)) \X (0..(NumPointsOf(target) - 1)) :
        SquaredDistance(PointOf(source, e[1]), PointOf(target, e[2])) <= radius * radius}
\* The index a scan of the targets in their order finds for source point i
\* when it replaces its best only on a strictly smaller squared distance.
BruteForceNearest(i) ==
    CHOOSE j \in 0..(NumPointsOf(target) - 1) :
        \A k \in 0..(NumPointsOf(target) - 1) :
            \/ SquaredDistance(PointOf(source, i), PointOf(target, j))
                  < SquaredDistance(PointOf(source, i), PointOf(target, k))
            \/ /\ SquaredDistance(PointOf(source, i), PointOf(target, j))
                    = SquaredDistance(PointOf(source, i), PointOf(target, k))
               /\ j <= k
\* The targets at the least squared distance from source point i.
ClosestTargets(i) ==
    {j \in 0..(NumPointsOf(target) - 1) :
        \A k \in 0..(NumPointsOf(target) - 1) :
            SquaredDistance(PointOf(source, i), PointOf(target, j))
                <= SquaredDistance(PointOf(source, i), PointOf(target, k))}
\* The target NearestEdges returned for source point i.
NearestOf(i) == At(returned.flat, i + returned.shape[2])

\* C1: when RadiusEdges(...).Done succeeds, the returned edges are exactly
\* the pairs (i, j) with squared distance of source[i] and target[j]
\* <= radius*radius, for every radius.
RadiusEdgesExact ==
    RadiusSucceeded => EdgeSet(returned) = BruteForcePairs

\* The same for the radii that are not negative.
RadiusEdgesExactFromZero ==
    (RadiusSucceeded /\ radius >= 0) => EdgeSet(returned) = BruteForcePairs

\* C2: the edges of RadiusEdges never hold the same (source, target) pair
\* twice, while they are collected and in the tensor returned.
NoEdgeTwice ==
    op = "RadiusEdges" =>
        /\ Len(edgesSource) = Len(edgesTarget)
        /\ \A a, b \in 1..Len(edgesSource) :
              (edgesSource[a] = edgesSource[b] /\ edgesTarget[a] = edgesTarget[b])
                  => a = b
        /\ RadiusSucceeded =>
              Cardinality(EdgeSet(returned)) = returned.shape[2]

\* A split tree over sources two of which are the same point, searched with
\* two targets that are the same point, all four pairs being edges.
NoEdgeTwiceWitness ==
    /\ RadiusSucceeded
    /\ ~IsLeaf(nodes[tree.Root])
    /\ \E i, k \in 0..(NumPointsOf(source) - 1) :
          /\ i # k
          /\ PointOf(source, i) = PointOf(source, k)
          /\ NumPointsOf(target) = 2
          /\ PointOf(target, 0) = PointOf(target, 1)
          /\ {<<i, 0>>, <<i, 1>>, <<k, 0>>, <<k, 1>>} \subseteq EdgeSet(returned)

\* C3: the target NearestEdges returns for source point i is a closest
\* target: no target is strictly closer to source[i].
NearestIsClosest ==
    NearestSucceeded =>
        \A i \in 0..(NumPointsOf(source) - 1) :
            /\ NearestOf(i) \in 0..(NumPointsOf(target) - 1)
            /\ \A j \in 0..(NumPointsOf(target) - 1) :
                  SquaredDistance(PointOf(source, i), PointOf(target, NearestOf(i)))
                      <= SquaredDistance(PointOf(source, i), PointOf(target, j))

\* The tree position that holds the caller's target j.
PositionOf(j) == CHOOSE i \in 0..(tree.NumPoints - 1) : At(tree.Order, i) = j

\* A split tree in which the target returned for a source point lies in the
\* branch of the root that is searched second.
NearestIsClosestWitness ==
    /\ NearestSucceeded
    /\ ~IsLeaf(nodes[tree.Root])
    /\ \E i \in 0..(NumPointsOf(source) - 1) :
          PositionOf(NearestOf(i))
              \in Positions(nearestBranches(nodes[tree.Root], PointOf(source, i))[2])

\* C4: the target index returned for source point i is the index found by
\* the brute-force scan, the lowest index among the closest targets.
NearestIsLowestIndex ==
    NearestSucceeded =>
        \A i \in 0..(NumPointsOf(source) - 1) : NearestOf(i) = BruteForceNearest(i)

\* C4, amended: the target index returned for source point i is the index
\* found by the brute-force scan when a single target is closest or when
\* there are at most 16 targets; otherwise it is one of the closest targets.
NearestIsLowestIndexUnlessTied ==
    NearestSucceeded =>
        \A i \in 0..(NumPointsOf(source) - 1) :
            /\ NearestOf(i) \in ClosestTargets(i)
            /\ (\/ Cardinality(ClosestTargets(i)) = 1
                \/ NumPointsOf(target) <= NearestMinPointsPerLeaf)
                  => NearestOf(i) = BruteForceNearest(i)

\* A split tree whose positions are not the caller's order, and a source
\* point with a single closest target, stored at a position that is not its
\* index.
NearestIsLowestIndexUnlessTiedWitness ==
    /\ NearestSucceeded
    /\ ~IsLeaf(nodes[tree.Root])
    /\ \E i \in 0..(NumPointsOf(source) - 1) :
          /\ Cardinality(ClosestTargets(i)) = 1
          /\ PositionOf(NearestOf(i)) # NearestOf(i)

\* C5: when NearestEdges(...).Done succeeds the result has shape
\* [2, numSourcePoints] and the source index at edge position i is i.
OneEdgePerSource ==
    NearestSucceeded =>
        /\ returned.shape = <<2, NumPointsOf(source)>>
        /\ Len(returned.flat) = 2 * NumPointsOf(source)
        /\ \A i \in 0..(NumPointsOf(source) - 1) : At(returned.flat, i) = i

\* Two source points searched in a split tree, neither matched to the
\* target of its own index.
OneEdgePerSourceWitness ==
    /\ NearestSucceeded
    /\ ~IsLeaf(nodes[tree.Root])
    /\ NumPointsOf(source) = 2
    /\ NearestOf(0) # 0 /\ NearestOf(1) # 1

\* The arguments of a search pass the checks of shape and dtype, so that
\* both are [n, d] point sets of one dimension.
PointSetsGiven ==
    /\ Rank(source) = 2 /\ Rank(target) = 2
    /\ source.shape[2] = target.shape[2]

\* C11: RadiusEdges(...).Done returns an error and no edge tensor whenever
\* no (source, target) pair lies within the radius, an empty target set
\* included; a successful result never has zero edges.
NoEdgesIsAnError ==
    (op = "RadiusEdges" /\ pc = "done") =>
        /\ (PointSetsGiven /\ BruteForcePairs = {}) => (err # "" /\ returned = Nil)
        /\ err # "" => returned = Nil
        /\ err = "" => (returned # Nil /\ returned.shape[2] >= 1
                          /\ Len(returned.flat) = 2 * returned.shape[2])

\* A search that ran over a built tree with targets, none of them within
\* the radius of a source, and ended with the error.
NoEdgesIsAnErrorWitness ==
    /\ op = "RadiusEdges" /\ pc = "done"
    /\ tree # Nil
    /\ PointSetsGiven
    /\ NumPointsOf(target) >= 1
    /\ BruteForcePairs = {}
    /\ err = "no edges found" /\ returned = Nil

\* C12: RadiusEdges called with a radius that is not strictly positive
\* (radius <= 0) fails with an error and returns no edges.
RadiusMustBePositive ==
    (op = "RadiusEdges" /\ pc = "done" /\ radius <= 0) =>
        (err # "" /\ returned = Nil)

DimensionMismatch ==
    Rank(source) = 2 /\ Rank(target) = 2 /\ source.shape[2] # target.shape[2]
DTypeMismatch ==
    Rank(source) = 2 /\ Rank(target) = 2 /\ source.dtype # target.dtype
DimensionError == "dimension of the points for source and target must match"
DTypeError == "DType of the source and target must match"
EmptyError == "nearest edges source or target are empty"
Searching == op \in {"RadiusEdges", "NearestEdges"}
NothingSearched ==
    /\ tree = Nil /\ nodes = <<>>
    /\ edgesSource = <<>> /\ edgesTarget = <<>>
    /\ returned = Nil

\* C13: RadiusEdges(...).Done and NearestEdges(...).Done return an error
\* and no edge tensor, before any tree is built or any pair compared, when
\* source and target differ in point dimension (the dimension error) or in
\* dtype (the dtype error); when both differ, the dimension error is the one
\* reported.
MismatchIsReported ==
    (Searching /\ (DimensionMismatch \/ DTypeMismatch)) =>
        /\ NothingSearched
        /\ pc = "done" =>
              err = IF DimensionMismatch THEN DimensionError ELSE DTypeError

\* C13, amended: the same, where for NearestEdges neither set is empty; an
\* empty set of NearestEdges is reported first, as an error as well.
MismatchIsReportedUnlessEmpty ==
    (Searching /\ (DimensionMismatch \/ DTypeMismatch)) =>
        /\ NothingSearched
        /\ pc = "done" =>
              /\ err # ""
              /\ (op = "RadiusEdges" \/ (Size(source) # 0 /\ Size(target) # 0)) =>
                    err = IF DimensionMismatch THEN DimensionError ELSE DTypeError

\* Done of RadiusEdges has returned for point sets that differ both in
\* dimension and in dtype, with the dimension error.
MismatchIsReportedUnlessEmptyWitness ==
    /\ op = "RadiusEdges" /\ pc = "done"
    /\ DimensionMismatch /\ DTypeMismatch
    /\ err = DimensionError
    /\ NothingSearched

ZeroPoints(t) == Rank(t) = 2 /\ t.shape[1] = 0

\* C14: NearestEdges(...).Done returns the empty-input error and no edge
\* tensor when the source set or the target set has zero points, whatever
\* their dimensions and dtypes: this check comes before those of the
\* dimension and the dtype.
EmptySetIsReported ==
    (op = "NearestEdges" /\ (ZeroPoints(source) \/ ZeroPoints(target))) =>
        /\ NothingSearched
        /\ pc = "done" => err = EmptyError

\* Done of NearestEdges has returned the empty-input error for an empty
\* target set whose dimension and dtype both differ from the source's.
EmptySetIsReportedWitness ==
    /\ op = "NearestEdges" /\ pc = "done"
    /\ ZeroPoints(target) /\ ~ZeroPoints(source)
    /\ DimensionMismatch /\ DTypeMismatch
    /\ err = EmptyError /\ returned = Nil

\* C15: every index of an edge list returned by RadiusEdges or NearestEdges
\* is an index into the caller's point sets, sources in [0, numSourcePoints)
\* and targets in [0, numTargetPoints); findNearest on a tree that is not
\* empty ends with a best position in [0, N), never the initial -1, and
\* returns Order[best]; the radius search carries with every target of a
\* working set its index in the caller's target set.
IndicesValid ==
    /\ (RadiusSucceeded \/ NearestSucceeded) =>
          \A k \in 0..(returned.shape[2] - 1) :
              /\ EdgeAt(returned, k)[1] \in 0..(NumPointsOf(source) - 1)
              /\ EdgeAt(returned, k)[2] \in 0..(NumPointsOf(target) - 1)
    /\ (op = "NearestEdges" /\ pc = "findNearest" /\ searchStack = <<>>) =>
          best.index \in 0..(tree.NumPoints - 1)
    /\ (op = "NearestEdges" /\ pc = "nearest" /\ sourceIdx > 0) =>
          edgesTarget[sourceIdx] = At(tree.Order, best.index)
    /\ (op = "NearestEdges" /\ pc = "done") => err # "panic: index out of range"
    /\ (op = "RadiusEdges" /\ pc = "radius") =>
          /\ \A k \in 1..Len(searchStack) :
                \A j \in 0..(Len(searchStack[k].targetIndices) - 1) :
                    /\ At(searchStack[k].targetIndices, j) \in 0..(NumPointsOf(target) - 1)
                    /\ Slice(searchStack[k].target, j * dimension, (j + 1) * dimension)
                          = PointOf(target, At(searchStack[k].targetIndices, j))
          /\ \A k \in 1..Len(edgesSource) :
                /\ edgesSource[k] \in 0..(NumPointsOf(source) - 1)
                /\ edgesTarget[k] \in 0..(NumPointsOf(target) - 1)

\* C16: NewKDTree never modifies the caller's pointsData: after every step
\* of a call, successful or not, the buffer holds the same values in the
\* same order, and the reordering is done in the tree's own clone of it.
PointsDataKept ==
    [][op = "NewKDTree" =>
          /\ pointsData' = pointsData
          /\ (tree' # Nil /\ tree'.NumPoints > 0) => tree'.PointsArray = "clone"]_vars

\* NewKDTree has returned a tree whose Points are in another order than the
\* caller's buffer.
PointsDataKeptWitness ==
    /\ op = "NewKDTree" /\ pc = "done" /\ err = ""
    /\ returned # Nil
    /\ returned.Points # pointsData
    /\ \E i \in 0..(returned.NumPoints - 1) : At(returned.Order, i) # i

\* The result of the search s run alone from where it is, with its own best
\* match.
RECURSIVE runAlone(_)
runAlone(s) ==
    IF s.pc = "done" THEN s.result
    ELSE LET out == searchStep(tree, nodes, s, s.best)
         IN  runAlone([out.s EXCEPT !.best = out.best])

\* C17: the radius search and the nearest search never write to the built
\* index (Points, Order, the nodes) nor to the point buffers, so every
\* interleaving of the steps of several searches on one built index gives
\* each search the result it has when run alone.
SearchesOnlyRead ==
    /\ [][pc = "searching" =>
            /\ tree' = tree /\ nodes' = nodes /\ pointsData' = pointsData
            /\ \A p \in 1..MaxSearches :
                  /\ searches'[p].points = searches[p].points
                  /\ searches'[p].kind = searches[p].kind]_vars
    /\ [](pc = "searching" =>
            \A p \in 1..MaxSearches :
                runAlone([searches[p] EXCEPT !.best = searches[bestCell(p)].best])
                    = runAlone(newSearch(searches[p].kind, searches[p].points,
                                         searches[p].radius)))

\* Two nearest searches with different results have both ended on one split
\* tree.
SearchesOnlyReadWitness ==
    /\ pc = "searching"
    /\ ~IsLeaf(nodes[tree.Root])
    /\ \A p \in 1..MaxSearches : searches[p].pc = "done"
    /\ \E p, q \in 1..MaxSearches :
          /\ searches[p].kind = "nearest" /\ searches[q].kind = "nearest"
          /\ searches[p].result # searches[q].result

\* C6: at every step of the construction and after it, Order is a bijection on
\* [0, N), the point stored at tree position i is the input point Order[i],
\* and writing each tree point back to position Order[i] gives the input.
OrderRoundTrips ==
    tree # Nil =>
        /\ Len(tree.Order) = tree.NumPoints
        /\ {tree.Order[i] : i \in 1..Len(tree.Order)} = 0..(tree.NumPoints - 1)
        /\ \A i \in 0..(tree.NumPoints - 1) : \A d \in Axes :
              Coord(i, d) = InputCoord(At(tree.Order, i), d)
        /\ \A j \in 0..(tree.NumPoints - 1) : \A d \in Axes :
              \E i \in 0..(tree.NumPoints - 1) :
                  At(tree.Order, i) = j /\ Coord(i, d) = InputCoord(j, d)

\* Two reordering steps have happened: a node below the root was sorted, and
\* the points are no longer in the caller's order.
OrderRoundTripsWitness ==
    /\ op = "NewKDTree" /\ pc = "done" /\ err = ""
    /\ \E i \in 0..(tree.NumPoints - 1) : At(tree.Order, i) # i
    /\ \E k \in NodeIds : k # tree.Root /\ ~IsLeaf(nodes[k])

\* C7: for every internal node, the points of the left child's range are
\* strictly below SplitValue on SplitAxis, those of the right child's range are
\* at or above it, and Left.Max[SplitAxis] < Right.Min[SplitAxis]; at every
\* step, so also after the children have sorted their ranges.
SplitSeparates ==
    tree # Nil =>
        \A k \in NodeIds :
            /\ nodes[k].Left # NilNode =>
                  \A i \in Positions(nodes[k].Left) :
                      Coord(i, nodes[k].SplitAxis) < nodes[k].SplitValue
            /\ nodes[k].Right # NilNode =>
                  \A i \in Positions(nodes[k].Right) :
                      Coord(i, nodes[k].SplitAxis) >= nodes[k].SplitValue
            /\ (nodes[k].Left # NilNode /\ nodes[k].Right # NilNode) =>
                  At(nodes[nodes[k].Left].Max, nodes[k].SplitAxis)
                      < At(nodes[nodes[k].Right].Min, nodes[k].SplitAxis)

\* A built tree with a node split where the value before the median equals
\* the median value, and with a child that sorted its own range.
SplitSeparatesWitness ==
    /\ op = "NewKDTree" /\ pc = "done" /\ err = ""
    /\ \E k \in NodeIds :
          /\ ~IsLeaf(nodes[k])
          /\ nodes[nodes[k].Left].EndIdx
                < nodes[k].StartIdx + (nodes[k].EndIdx - nodes[k].StartIdx) \div 2
          /\ ~IsLeaf(nodes[nodes[k].Left]) \/ ~IsLeaf(nodes[nodes[k].Right])

\* C8: for every node and axis d, Min[d] and Max[d] are the least and the
\* greatest coordinate d of the points stored in [StartIdx, EndIdx), at
\* every step, so also after descendants have reordered the range.
BoxesTight ==
    tree # Nil =>
        \A k \in NodeIds : \A d \in Axes :
            /\ Positions(k) # {}
            /\ At(nodes[k].Min, d) = Lowest({Coord(i, d) : i \in Positions(k)})
            /\ At(nodes[k].Max, d) = Highest({Coord(i, d) : i \in Positions(k)})

\* A built tree whose root range was reordered by a child after the root's
\* box was computed, the box not being a single point.
BoxesTightWitness ==
    /\ op = "NewKDTree" /\ pc = "done" /\ err = ""
    /\ ~IsLeaf(nodes[tree.Root])
    /\ nodes[tree.Root].Min # nodes[tree.Root].Max
    /\ \E k \in NodeIds :
          /\ k # tree.Root /\ ~IsLeaf(nodes[k])
          /\ nodes[k].SplitAxis # nodes[tree.Root].SplitAxis

\* C9: in a built tree the root covers [0, N), every internal node has two
\* children with non-empty ranges that split the node's range in two, and
\* every position belongs to exactly one leaf.
RangesPartition ==
    (TreeBuilt /\ err = "") =>
        /\ tree.Root # NilNode
        /\ nodes[tree.Root].StartIdx = 0
        /\ nodes[tree.Root].EndIdx = tree.NumPoints
        /\ \A k \in NodeIds :
              \/ IsLeaf(nodes[k])
              \/ /\ nodes[k].Left # NilNode
                 /\ nodes[k].Right # NilNode
                 /\ nodes[nodes[k].Left].StartIdx < nodes[nodes[k].Left].EndIdx
                 /\ nodes[nodes[k].Right].StartIdx < nodes[nodes[k].Right].EndIdx
                 /\ nodes[nodes[k].Left].StartIdx = nodes[k].StartIdx
                 /\ nodes[nodes[k].Left].EndIdx = nodes[nodes[k].Right].StartIdx
                 /\ nodes[nodes[k].Right].EndIdx = nodes[k].EndIdx
        /\ \A i \in 0..(tree.NumPoints - 1) :
              Cardinality({k \in NodeIds : IsLeaf(nodes[k]) /\ i \in Positions(k)}) = 1

\* A built tree with at least two internal nodes.
RangesPartitionWitness ==
    /\ op = "NewKDTree" /\ pc = "done" /\ err = ""
    /\ Cardinality({k \in NodeIds : ~IsLeaf(nodes[k])}) >= 2

\* C10: NewKDTree returns an error and nil for an empty pointsData, a
\* dimension <= 0, a length that is no multiple of the dimension, or
\* minPointsPerLeaf < 1; otherwise the tree, with a root and
\* NumPoints = len(pointsData) / dimension.
NewKDTreeRejects ==
    (op = "NewKDTree" /\ pc = "done") =>
        IF \/ Len(pointsData) = 0
           \/ dimension <= 0
           \/ (dimension > 0 /\ Len(pointsData) % dimension # 0)
           \/ minPointsPerLeaf < 1
        THEN err # "" /\ returned = Nil /\ tree = Nil
        ELSE /\ err = ""
             /\ returned # Nil
             /\ returned.Root # NilNode
             /\ returned.NumPoints = Len(pointsData) \div dimension

\* NewKDTree has refused a leaf size of 0 for points that are well formed.
NewKDTreeRejectsWitness ==
    /\ op = "NewKDTree" /\ pc = "done"
    /\ minPointsPerLeaf < 1
    /\ dimension > 0 /\ Len(pointsData) > 0 /\ Len(pointsData) % dimension = 0
    /\ err # "" /\ returned = Nil

\* ------------------------------------------------- UnionEdges, SortEdgesBySource
ValidEdges(t) == t # Nil /\ t.dtype = "Int32" /\ Len(t.shape) = 2 /\ t.shape[1] = 2
UnionDone == op = "UnionEdges" /\ pc = "done"
UnionGivenEdges ==
    /\ Len(inputEdges) >= 1
    /\ \A k \in 1..Len(inputEdges) : ValidEdges(inputEdges[k])
InputEdgeSet == UNION {EdgeSet(inputEdges[k]) : k \in 1..Len(inputEdges)}

\* C18: UnionEdges applied to one or more [2, n] int32 edge tensors succeeds
\* and returns a [2, m] int32 tensor whose columns are exactly the union of
\* the inputs' edges, each distinct edge once, so m is the number of
\* distinct edges; an empty union gives a successful [2, 0] tensor.
UnionIsTheUnion ==
    (UnionDone /\ UnionGivenEdges) =>
        /\ err = ""
        /\ ValidEdges(returned)
        /\ returned.shape[2] = Cardinality(InputEdgeSet)
        /\ Len(returned.flat) = 2 * Cardinality(InputEdgeSet)
        /\ EdgeSet(returned) = InputEdgeSet

\* Two inputs that share an edge, one of them holding an edge twice, and
\* an edge whose source differs from its target, have been united.
UnionIsTheUnionWitness ==
    /\ UnionDone /\ UnionGivenEdges
    /\ Len(inputEdges) = 2
    /\ EdgeSet(inputEdges[1]) \cap EdgeSet(inputEdges[2]) # {}
    /\ inputEdges[1].shape[2] > Cardinality(EdgeSet(inputEdges[1]))
    /\ \E e \in InputEdgeSet : e[1] # e[2]
    /\ err = "" /\ returned.shape[2] = 1

\* Only empty [2, 0] tensors have been united, into a [2, 0] tensor.
UnionOfNothingWitness ==
    /\ UnionDone /\ UnionGivenEdges
    /\ InputEdgeSet = {}
    /\ err = "" /\ returned = Tensor("Int32", <<2, 0>>, <<>>)

\* Column i of a [2, n] tensor is not after column j in the order by source
\* and then by target.
NotAfter(t, i, j) ==
    \/ EdgeAt(t, i)[1] < EdgeAt(t, j)[1]
    \/ EdgeAt(t, i)[1] = EdgeAt(t, j)[1] /\ EdgeAt(t, i)[2] <= EdgeAt(t, j)[2]
SortedBySource(t) ==
    \A i, j \in 0..(t.shape[2] - 1) : i < j => NotAfter(t, i, j)

\* C19: the tensor UnionEdges returns lists its unique edges sorted first by
\* the source node index and then by the target node index, as it is
\* returned, before any call of SortEdgesBySource.
UnionIsSorted ==
    (UnionDone /\ err = "") => SortedBySource(returned)

SortDone == op = "SortEdgesBySource" /\ pc = "done"
\* How many columns of the [2, n] tensor t are the edge e.
Occurrences(t, e) == Cardinality({k \in 0..(t.shape[2] - 1) : EdgeAt(t, k) = e})

\* C20: SortEdgesBySource on a valid [2, n] int32 tensor succeeds and leaves
\* the tensor, of the same shape and dtype, with its columns in
\* non-decreasing order by source and then by target, every (source,
\* target) column occurring as many times as in the tensor it was given; on
\* a tensor of another shape or dtype it returns an error and leaves the
\* tensor as it was given.
SortEdgesSorts ==
    SortDone =>
        IF ValidEdges(inputEdges[1])
        THEN /\ err = ""
             /\ edges.shape = inputEdges[1].shape /\ edges.dtype = "Int32"
             /\ Len(edges.flat) = Len(inputEdges[1].flat)
             /\ SortedBySource(edges)
             /\ \A e \in EdgeSet(edges) \cup EdgeSet(inputEdges[1]) :
                    Occurrences(edges, e) = Occurrences(inputEdges[1], e)
        ELSE err # "" /\ edges = inputEdges[1]

\* Three edges given in decreasing order, two of them with the same source
\* and all with different targets, have been sorted.
SortEdgesSortsWitness ==
    /\ SortDone /\ err = ""
    /\ ValidEdges(inputEdges[1]) /\ inputEdges[1].shape[2] = 3
    /\ \A i, j \in 0..2 : i < j => ~NotAfter(inputEdges[1], i, j)
    /\ EdgeAt(inputEdges[1], 0)[1] = EdgeAt(inputEdges[1], 1)[1]
    /\ Cardinality({e[2] : e \in EdgeSet(inputEdges[1])}) = 3
    /\ edges # inputEdges[1]

\* An Int32 tensor of shape [3, 1] has been refused and is left as it was.
SortEdgesRefusesWitness ==
    /\ SortDone /\ err # ""
    /\ edges = inputEdges[1] /\ edges.dtype = "Int32" /\ edges.shape = <<3, 1>>

\* Input k of UnionEdges is a tensor that is not a [2, n] int32 tensor.
InvalidInput(k) == inputEdges[k] # Nil /\ ~ValidEdges(inputEdges[k])

\* C21: UnionEdges returns an error and no tensor when it has no input and
\* when any input tensor is not of shape [2, numEdges] or not of dtype
\* int32, wherever that tensor is and whatever the others are.
UnionRejectsInvalid ==
    (UnionDone /\ (Len(inputEdges) = 0 \/ \E k \in 1..Len(inputEdges) : InvalidInput(k)))
        => (err # "" /\ returned = Nil)

\* What UnionEdges does: it returns an error and no tensor exactly when it
\* has no input or when some input tensor that holds at least one element
\* is not of shape [2, numEdges] or not of dtype int32, wherever that tensor
\* is; nil tensors and tensors of size 0 are passed over whatever their
\* shape and dtype.
UnionRejectsInvalidUnlessEmpty ==
    UnionDone =>
        /\ err # "" <=>
              \/ Len(inputEdges) = 0
              \/ \E k \in 1..Len(inputEdges) : InvalidInput(k) /\ Size(inputEdges[k]) # 0
        /\ err # "" => returned = Nil
        /\ err = "" => ValidEdges(returned)

\* UnionEdges has refused a [2, 1] tensor of another dtype given after a
\* valid tensor that holds an edge.
UnionRejectsInvalidUnlessEmptyWitness ==
    /\ UnionDone /\ Len(inputEdges) = 2
    /\ ValidEdges(inputEdges[1]) /\ Size(inputEdges[1]) # 0
    /\ InvalidInput(2) /\ inputEdges[2].shape = <<2, 1>>
    /\ err # "" /\ returned = Nil

\* ------------------------------------------------------------ leaves and splits
NumPointsForNode(k) == nodes[k].EndIdx - nodes[k].StartIdx
\* NewKDTree has returned its tree: every buildNode call has ended.
KDTreeDone == op = "NewKDTree" /\ pc = "done" /\ tree # Nil

\* C22: in a tree built by NewKDTree with the leaf threshold
\* minPointsPerLeaf, every node that holds at most minPointsPerLeaf points
\* is a leaf, and every internal node holds more than minPointsPerLeaf
\* points; no node is given a child at any step of the construction unless
\* it holds more than minPointsPerLeaf points.
SmallNodesAreLeaves ==
    (op = "NewKDTree" /\ tree # Nil) =>
        \A k \in NodeIds :
            /\ NumPointsForNode(k) <= minPointsPerLeaf => IsLeaf(nodes[k])
            /\ ~IsLeaf(nodes[k]) => NumPointsForNode(k) > minPointsPerLeaf

\* A built tree with the threshold 2 whose root of three points is split
\* into a leaf of one point and a leaf of exactly two different points.
SmallNodesAreLeavesWitness ==
    /\ KDTreeDone /\ minPointsPerLeaf = 2
    /\ \E k, l \in NodeIds :
          /\ ~IsLeaf(nodes[k]) /\ NumPointsForNode(k) = 3
          /\ nodes[k].Right = l /\ IsLeaf(nodes[l]) /\ NumPointsForNode(l) = 2
          /\ nodes[l].Min # nodes[l].Max

\* The values the points of node k have on the axis d.
AxisValues(k, d) == {Coord(i, d) : i \in Positions(k)}
\* The position of the median of node k: StartIdx + floor(n / 2).
MedianPosition(k) == nodes[k].StartIdx + NumPointsForNode(k) \div 2
\* The median of node k has the smallest split-axis value of its range.
MedianIsLowest(k) ==
    Coord(MedianPosition(k), nodes[k].SplitAxis) = Lowest(AxisValues(k, nodes[k].SplitAxis))
\* The range of node k lies in non-decreasing order of its split-axis values.
SortedOnSplitAxis(k) ==
    \A i, j \in Positions(k) :
        i < j => Coord(i, nodes[k].SplitAxis) <= Coord(j, nodes[k].SplitAxis)

\* C23: in a built tree a node of more than minPointsPerLeaf points is a
\* leaf if and only if the value at the position StartIdx + floor(n / 2) of
\* its range, sorted on the split axis, is the smallest split-axis value of
\* the range (as when all its points are identical); every other node of
\* that size is split in two, and so on below it.
LargeLeavesAreDegenerate ==
    KDTreeDone =>
        \A k \in NodeIds :
            NumPointsForNode(k) > minPointsPerLeaf =>
                /\ IsLeaf(nodes[k]) <=> MedianIsLowest(k)
                /\ IsLeaf(nodes[k]) => SortedOnSplitAxis(k)
                /\ ~IsLeaf(nodes[k]) => nodes[k].Left # NilNode /\ nodes[k].Right # NilNode

\* A built tree with a leaf of more points than the threshold whose points
\* are not all identical on the split axis, the median having the smallest
\* value; and a node of the same tree that is split.
LargeLeavesAreDegenerateWitness ==
    /\ KDTreeDone
    /\ \E k, l \in NodeIds :
          /\ NumPointsForNode(k) > minPointsPerLeaf /\ IsLeaf(nodes[k])
          /\ Cardinality(AxisValues(k, nodes[k].SplitAxis)) > 1
          /\ MedianIsLowest(k)
          /\ ~IsLeaf(nodes[l])

\* Max[d] - Min[d] of the bounding box of node k.
RangeOnAxis(k, d) == At(nodes[k].Max, d) - At(nodes[k].Min, d)
WidestAxes(k) == {d \in Axes : \A e \in Axes : RangeOnAxis(k, d) >= RangeOnAxis(k, e)}

\* C24: the SplitAxis of every internal node is the lowest axis among those
\* on which the node's bounding box is widest; so an axis on which all the
\* node's points agree is not chosen while another axis has a range that is
\* not zero, and with the dimension 1 the split axis is 0.
SplitAxisIsWidest ==
    (op = "NewKDTree" /\ tree # Nil) =>
        \A k \in NodeIds :
            ~IsLeaf(nodes[k]) =>
                /\ nodes[k].SplitAxis = Lowest(WidestAxes(k))
                /\ RangeOnAxis(k, nodes[k].SplitAxis) > 0
                /\ tree.Dimension = 1 => nodes[k].SplitAxis = 0

\* A built tree with an internal node as wide on the axis 1 as on the axis
\* 0, split on the axis 0.
SplitAxisIsWidestWitness ==
    /\ KDTreeDone /\ tree.Dimension = 2
    /\ \E k \in NodeIds :
          /\ ~IsLeaf(nodes[k])
          /\ RangeOnAxis(k, 0) = RangeOnAxis(k, 1)
          /\ nodes[k].SplitAxis = 0

\* A built tree with an internal node whose points agree on the axis 0,
\* split on the axis 1.
SplitAxisSkipsFlatWitness ==
    /\ KDTreeDone /\ tree.Dimension = 2
    /\ \E k \in NodeIds :
          /\ ~IsLeaf(nodes[k])
          /\ RangeOnAxis(k, 0) = 0
          /\ nodes[k].SplitAxis = 1

\* ------------------------------------------------------------ the radius search
\* The gap on the axis (1-based) a between the point p and the box of node k.
AxisGap(p, k, a) ==
    IF p[a] < nodes[k].Min[a] THEN nodes[k].Min[a] - p[a]
    ELSE IF p[a] > nodes[k].Max[a] THEN p[a] - nodes[k].Max[a]
    ELSE 0
RECURSIVE SumGapSquares(_, _, _)
SumGapSquares(p, k, a) ==
    IF a = 0 THEN 0 ELSE AxisGap(p, k, a) * AxisGap(p, k, a) + SumGapSquares(p, k, a - 1)
\* The squared distance of the point p to the bounding box of node k.
BoxDistance2(p, k) == SumGapSquares(p, k, Len(p))
\* The indices of the working set ws whose target is within the radius of
\* the box of node k, in the order of ws.
WithinBox(ws, k) ==
    SelectSeq(ws, LAMBDA t : BoxDistance2(PointOf(target, t), k) <= radius * radius)
RECURSIVE CoordsOf(_)
CoordsOf(ws) == IF ws = <<>> THEN <<>> ELSE PointOf(target, Head(ws)) \o CoordsOf(Tail(ws))
\* The edges a step has appended.
NewEdges ==
    {<<edgesSource'[j], edgesTarget'[j]>> : j \in (Len(edgesSource) + 1)..Len(edgesSource')}
InSeq(ws) == {ws[j] : j \in 1..Len(ws)}
\* A call of radiusEdgesRecursiveImpl is about to run with a radius >= 0.
RadiusVisiting == op = "RadiusEdges" /\ pc = "radius" /\ searchStack # <<>> /\ radius >= 0

\* The visit of the node of the first frame of the stack, seen as a step.
RadiusVisitFilters ==
    LET call == Head(searchStack)
        k    == call.node
        kept == WithinBox(call.targetIndices, k)
    IN  /\ \A t \in InSeq(call.targetIndices) \ InSeq(kept) :
              \A i \in Positions(k) :
                  SquaredDistance(PointOf(target, t),
                                  Slice(tree.Points, i * dimension, (i + 1) * dimension))
                      > radius * radius
        /\ \A e \in NewEdges : e[2] \in InSeq(kept)
        /\ kept = <<>> => /\ searchStack' = Tail(searchStack)
                          /\ NewEdges = {}
        /\ (kept # <<>> /\ IsLeaf(nodes[k])) => searchStack' = Tail(searchStack)
        /\ (kept # <<>> /\ ~IsLeaf(nodes[k])) =>
              /\ NewEdges = {}
              /\ searchStack' =
                    <<[node |-> nodes[k].Left, target |-> CoordsOf(kept),
                       targetIndices |-> kept],
                      [node |-> nodes[k].Right, target |-> CoordsOf(kept),
                       targetIndices |-> kept]>> \o Tail(searchStack)

\* C25: with a radius >= 0, every visit of the radius search passes on
\* exactly the targets of its working set whose squared distance to the
\* node's bounding box is <= radius * radius, in their order and with their
\* coordinates; every target it drops is farther than the radius from every
\* source point of the node's range; with no target left the node's subtree
\* is not descended and no edge is added; and a leaf adds edges only to the
\* targets left.
RadiusFilterIsBoxDistance ==
    [][RadiusVisiting => RadiusVisitFilters]_vars

\* The left child of a split root has been visited with two targets: it has
\* dropped one, farther than the radius from its box, and has matched the
\* other; the right child is still to be visited.
RadiusFilterIsBoxDistanceWitness ==
    /\ op = "RadiusEdges" /\ pc = "radius" /\ radius >= 1
    /\ ~IsLeaf(nodes[tree.Root])
    /\ Len(searchStack) = 1
    /\ Head(searchStack).node = nodes[tree.Root].Right
    /\ Len(Head(searchStack).targetIndices) = 2
    /\ \E a, b \in InSeq(Head(searchStack).targetIndices) :
          /\ BoxDistance2(PointOf(target, b), nodes[tree.Root].Left) > radius * radius
          /\ BoxDistance2(PointOf(target, a), nodes[tree.Root].Left) <= radius * radius
          /\ \E j \in 1..Len(edgesTarget) : edgesTarget[j] = a
          /\ \A j \in 1..Len(edgesTarget) : edgesTarget[j] # b

\* ----------------------------------------------------------- the nearest search
\* A call of findNearest is running for the source point sourceIdx.
FindingNearest == op = "NearestEdges" /\ pc = "findNearest"
\* The tree point at the position i.
TreePoint(i) == Slice(tree.Points, i * tree.Dimension, (i + 1) * tree.Dimension)
\* The children of node k on the query point's side of the split and across it.
NearChild(k) ==
    IF At(sourcePoint, nodes[k].SplitAxis) < nodes[k].SplitValue
    THEN nodes[k].Left ELSE nodes[k].Right
FarChild(k) ==
    IF At(sourcePoint, nodes[k].SplitAxis) < nodes[k].SplitValue
    THEN nodes[k].Right ELSE nodes[k].Left
\* (point[SplitAxis] - SplitValue)^2 for the node k.
DistToSplit2(k) ==
    (At(sourcePoint, nodes[k].SplitAxis) - nodes[k].SplitValue)
        * (At(sourcePoint, nodes[k].SplitAxis) - nodes[k].SplitValue)

\* The step from the first frame of the stack, for each kind of frame.
NearestStepInOrder ==
    LET frame == Head(searchStack)
        k     == frame.node
    IN  /\ (frame.kind = "visit" /\ k # NilNode /\ ~IsLeaf(nodes[k])) =>
              /\ Len(searchStack') = Len(searchStack) + 1
              /\ searchStack'[1] = [kind |-> "visit", node |-> NearChild(k)]
              /\ searchStack'[2] = [kind |-> "second", node |-> k]
        /\ frame.kind = "second" =>
              IF DistToSplit2(k) < best.dist2
              THEN searchStack' =
                       <<[kind |-> "visit", node |-> FarChild(k)]>> \o Tail(searchStack)
              ELSE /\ searchStack' = Tail(searchStack)
                   /\ \A i \in Positions(FarChild(k)) :
                          SquaredDistance(sourcePoint, TreePoint(i)) >= best.dist2

\* C26: in the nearest search an internal node searches first the child on
\* the query point's side of the split (Left iff point[SplitAxis] <
\* SplitValue) and comes back to the other child afterwards, which it
\* searches only if (point[SplitAxis] - SplitValue)^2 is strictly less than
\* the best squared distance so far; the best squared distance never
\* increases and changes only to a strictly smaller one; a child that is
\* skipped holds no point strictly closer than the best at that time, and
\* when the search ends no point of the tree is strictly closer than the
\* final best.
NearSideFirst ==
    /\ [][(FindingNearest /\ searchStack # <<>>) => NearestStepInOrder]_vars
    /\ [][(FindingNearest /\ pc' = "findNearest") =>
             /\ best'.dist2 <= best.dist2
             /\ best' # best => best'.dist2 < best.dist2]_vars
    /\ []((FindingNearest /\ searchStack = <<>>) =>
             \A i \in 0..(tree.NumPoints - 1) :
                 SquaredDistance(sourcePoint, TreePoint(i)) >= best.dist2)

\* A search of a root with two leaves has ended with its best in the child
\* on the query point's side, the split being no closer than that best: the
\* other child was skipped.
NearSideFirstWitness ==
    /\ FindingNearest /\ searchStack = <<>>
    /\ ~IsLeaf(nodes[tree.Root])
    /\ best.index \in Positions(NearChild(tree.Root))
    /\ DistToSplit2(tree.Root) >= best.dist2
    /\ best.dist2 > 0

\* A search has ended with its best in the child across the split, searched
\* second.
OtherSideSearchedWitness ==
    /\ FindingNearest /\ searchStack = <<>>
    /\ ~IsLeaf(nodes[tree.Root])
    /\ best.index \in Positions(FarChild(tree.Root))

\* ------------------------------------------------------- the recursion of buildNode
\* The number of buildNode calls on the way from the root to the node k.
RECURSIVE NodeDepth(_)
NodeDepth(k) ==
    IF k = tree.Root THEN 1
    ELSE 1 + NodeDepth(CHOOSE j \in 1..Len(nodes) :
                           nodes[j].Left = k \/ nodes[j].Right = k)
\* The range start..end is non-empty, lies within the range of node k and
\* holds fewer points.
ShrinksWithin(start, end, k) ==
    /\ start < end
    /\ nodes[k].StartIdx <= start /\ end <= nodes[k].EndIdx
    /\ end - start < NumPointsForNode(k)
\* Every buildNode call, pending or made, was given a non-empty range,
\* strictly smaller than its parent's; a node with both children is split at
\* a position strictly inside its range.
RangesShrink ==
    /\ \A c \in 1..Len(buildStack) :
          /\ buildStack[c].start < buildStack[c].end
          /\ buildStack[c].parent # NilNode =>
                ShrinksWithin(buildStack[c].start, buildStack[c].end, buildStack[c].parent)
    /\ \A k \in 1..Len(nodes) :
          /\ nodes[k].StartIdx < nodes[k].EndIdx
          /\ nodes[k].Left # NilNode =>
                /\ ShrinksWithin(nodes[nodes[k].Left].StartIdx, nodes[nodes[k].Left].EndIdx, k)
                /\ nodes[nodes[k].Left].StartIdx = nodes[k].StartIdx
          /\ nodes[k].Right # NilNode =>
                /\ ShrinksWithin(nodes[nodes[k].Right].StartIdx, nodes[nodes[k].Right].EndIdx, k)
                /\ nodes[nodes[k].Right].EndIdx = nodes[k].EndIdx
          /\ (nodes[k].Left # NilNode /\ nodes[k].Right # NilNode) =>
                /\ nodes[nodes[k].Left].EndIdx = nodes[nodes[k].Right].StartIdx
                /\ nodes[k].StartIdx < nodes[nodes[k].Right].StartIdx
                /\ nodes[nodes[k].Right].StartIdx < nodes[k].EndIdx

\* A pending call of buildNode has always an outcome to go on with: BuildNode
\* is enabled whenever BuildNodePending holds.
PendingCallHasOutcome ==
    BuildNodePending =>
        buildNode(tree.Points, tree.Order, tree.Dimension, Head(buildStack).start,
                  Head(buildStack).end, minPointsPerLeaf) # {}

\* C27: NewKDTree ends for every input, duplicate-heavy ones included; every
\* recursive call of buildNode gets a non-empty range strictly smaller than
\* its parent's, the split position p of a node that is split satisfying
\* StartIdx < p < EndIdx; so no node lies deeper than the number of points.
BuildTerminates ==
    /\ [](op = "NewKDTree" => RangesShrink)
    /\ [](op = "NewKDTree" =>
            \A k \in 1..Len(nodes) : NodeDepth(k) <= tree.NumPoints)
    /\ <>(pc = "done")

\* A tree has been built three levels deep over points with repeated values
\* on the split axis of its root.
BuildTerminatesWitness ==
    /\ KDTreeDone /\ tree.Root # NilNode
    /\ \E k \in 1..Len(nodes) : NodeDepth(k) >= 3
    /\ \E i, j \in Positions(tree.Root) :
          i # j /\ Coord(i, nodes[tree.Root].SplitAxis) = Coord(j, nodes[tree.Root].SplitAxis)

\* ------------------------------------------------- the order of the radius edges
\* The edges of one source lie next to one another in the lists src, tgt,
\* with strictly increasing targets.
GroupedBySource(src, tgt) ==
    \A i, j \in 1..Len(src) :
        (i < j /\ src[i] = src[j]) =>
            /\ \A m \in i..j : src[m] = src[i]
            /\ tgt[i] < tgt[j]
\* The working set of a frame of the search: its indices strictly increase
\* and each point of it is the target point of its index.
WorkingSetInOrder(frame) ==
    /\ Len(frame.target) = Len(frame.targetIndices) * dimension
    /\ \A a, b \in 1..Len(frame.targetIndices) :
          a < b => frame.targetIndices[a] < frame.targetIndices[b]
    /\ \A a \in 1..Len(frame.targetIndices) :
          Slice(frame.target, (a - 1) * dimension, a * dimension)
              = PointOf(target, frame.targetIndices[a])

\* C28: in the edge list of the radius search all the edges of one source
\* are emitted contiguously (a source index never comes back after another
\* one) and, among them, the target indices strictly increase; every working
\* set handed down the tree is in ascending order of the original indices,
\* each of its points being the target point of its index.
RadiusEdgesGrouped ==
    op = "RadiusEdges" =>
        /\ GroupedBySource(edgesSource, edgesTarget)
        /\ pc = "radius" => \A f \in 1..Len(searchStack) : WorkingSetInOrder(searchStack[f])
        /\ (pc = "done" /\ err = "" /\ returned # Nil) =>
              GroupedBySource(SubSeq(returned.flat, 1, returned.shape[2]),
                              SubSeq(returned.flat, returned.shape[2] + 1,
                                     2 * returned.shape[2]))

\* The search has returned the edges of two sources, the first with two
\* targets.
RadiusEdgesGroupedWitness ==
    /\ op = "RadiusEdges" /\ pc = "done" /\ err = "" /\ returned # Nil
    /\ returned.shape[2] >= 3
    /\ returned.flat[1] = returned.flat[2]
    /\ returned.flat[2] # returned.flat[3]
    /\ returned.flat[returned.shape[2] + 1] < returned.flat[returned.shape[2] + 2]
====
